---- MODULE Spec2Model ----
(***************************************************************************)
(* PyTerminal dispatch core: TerminalEngine.execute_command, the           *)
(* natural-language interpreter's rule table, the shlex tokenizer, alias   *)
(* expansion, the handlers that touch the session (files, aliases,         *)
(* environment, history) and the interpreter's chat.                       *)
(* Text is modelled as TLA+ strings, character by character.               *)
(***************************************************************************)
EXTENDS Integers, Sequences, FiniteSets, TLC

(***************************************************************************)
(* Text primitives (Python str methods used by the source)                 *)
(***************************************************************************)

\* s[i] as a one-character string
CharAt(s, i) == SubSeq(s, i, i)

\* `sub in s`
Contains(s, sub) ==
    \E i \in 1..(Len(s) - Len(sub) + 1) : SubSeq(s, i, i + Len(sub) - 1) = sub

\* s.startswith(pre)
StartsWith(s, pre) == Len(pre) <= Len(s) /\ SubSeq(s, 1, Len(pre)) = pre

UpperToLower ==
    [c \in {"A","B","C","D","E","F","G","H","I","J","K","L","M",
            "N","O","P","Q","R","S","T","U","V","W","X","Y","Z"} |->
       CASE c = "A" -> "a" [] c = "B" -> "b" [] c = "C" -> "c" [] c = "D" -> "d"
         [] c = "E" -> "e" [] c = "F" -> "f" [] c = "G" -> "g" [] c = "H" -> "h"
         [] c = "I" -> "i" [] c = "J" -> "j" [] c = "K" -> "k" [] c = "L" -> "l"
         [] c = "M" -> "m" [] c = "N" -> "n" [] c = "O" -> "o" [] c = "P" -> "p"
         [] c = "Q" -> "q" [] c = "R" -> "r" [] c = "S" -> "s" [] c = "T" -> "t"
         [] c = "U" -> "u" [] c = "V" -> "v" [] c = "W" -> "w" [] c = "X" -> "x"
         [] c = "Y" -> "y" [] c = "Z" -> "z"]

LowerChar(c) == IF c \in DOMAIN UpperToLower THEN UpperToLower[c] ELSE c

\* characters a..b of s lowercased (halving keeps the evaluation shallow)
RECURSIVE LowerRange(_, _, _)
LowerRange(s, a, b) ==
    IF a > b THEN ""
    ELSE IF a = b THEN LowerChar(CharAt(s, a))
    ELSE LET m == (a + b) \div 2 IN LowerRange(s, a, m) \o LowerRange(s, m + 1, b)

\* s.lower()
Lower(s) == LowerRange(s, 1, Len(s))

Whitespace == {" ", "\t", "\n", "\r"}

SetMin(S) == CHOOSE m \in S : \A n \in S : m <= n
SetMax(S) == CHOOSE m \in S : \A n \in S : m >= n

\* positions of the characters of s that are not whitespace
NonWs(s) == {i \in 1..Len(s) : CharAt(s, i) \notin Whitespace}

\* s.strip()
Strip(s) == IF NonWs(s) = {} THEN "" ELSE SubSeq(s, SetMin(NonWs(s)), SetMax(NonWs(s)))

RECURSIVE JoinFrom(_, _, _)
JoinFrom(sep, xs, i) ==
    IF i > Len(xs) THEN ""
    ELSE IF i = Len(xs) THEN xs[i]
    ELSE xs[i] \o sep \o JoinFrom(sep, xs, i + 1)

\* sep.join(xs)
Join(sep, xs) == JoinFrom(sep, xs, 1)

(***************************************************************************)
(* Tokenizer: shlex.split(command_line) in POSIX mode, comments off        *)
(***************************************************************************)

\* States of shlex.read_token: "N" between tokens, "W" in a word, "S" in
\* single quotes, "D" in double quotes, "EW" after a backslash outside
\* quotes, "ED" after a backslash inside double quotes.
LexModes == {"N", "W", "S", "D", "EW", "ED"}

\* One character read in one state: the next state and what is emitted (the
\* characters added to the current token, "END" when the token is complete).
LexStep(mode, c) ==
    CASE mode = "S" -> IF c = "'" THEN [mode |-> "W", ev |-> <<>>] ELSE [mode |-> "S", ev |-> <<c>>]
      [] mode = "D" -> IF c = "\"" THEN [mode |-> "W", ev |-> <<>>]
                       ELSE IF c = "\\" THEN [mode |-> "ED", ev |-> <<>>]
                       ELSE [mode |-> "D", ev |-> <<c>>]
      [] mode = "ED" -> IF c \in {"\"", "\\"} THEN [mode |-> "D", ev |-> <<c>>]
                        ELSE [mode |-> "D", ev |-> <<"\\", c>>]
      [] mode = "EW" -> [mode |-> "W", ev |-> <<c>>]
      [] mode \in {"N", "W"} ->
            IF c \in Whitespace THEN [mode |-> "N", ev |-> IF mode = "W" THEN <<"END">> ELSE <<>>]
            ELSE IF c = "\\" THEN [mode |-> "EW", ev |-> <<>>]
            ELSE IF c = "'" THEN [mode |-> "S", ev |-> <<>>]
            ELSE IF c = "\"" THEN [mode |-> "D", ev |-> <<>>]
            ELSE [mode |-> "W", ev |-> <<c>>]

\* The scanner run over characters a..b of s, from every entry state (the
\* range is halved so that long lines do not nest the evaluation deeply).
RECURSIVE LexRange(_, _, _)
LexRange(s, a, b) ==
    IF a > b THEN [m \in LexModes |-> [mode |-> m, ev |-> <<>>]]
    ELSE IF a = b THEN [m \in LexModes |-> LexStep(m, CharAt(s, a))]
    ELSE LET mid == (a + b) \div 2
             f == LexRange(s, a, mid)
             g == LexRange(s, mid + 1, b)
         IN [m \in LexModes |-> [mode |-> g[f[m].mode].mode, ev |-> f[m].ev \o g[f[m].mode].ev]]

RECURSIVE ConcatRange(_, _, _)
ConcatRange(ev, a, b) ==
    IF a > b THEN ""
    ELSE IF a = b THEN ev[a]
    ELSE LET mid == (a + b) \div 2 IN ConcatRange(ev, a, mid) \o ConcatRange(ev, mid + 1, b)

\* the tokens spelled by a sequence of emitted characters and "END" marks
TokensOf(ev) ==
    LET ends == {i \in 1..Len(ev) : ev[i] = "END"}
        EndNo(k) == CHOOSE e \in ends : Cardinality({x \in ends : x < e}) = k - 1
    IN [k \in 1..Cardinality(ends) |->
          ConcatRange(ev, (IF k = 1 THEN 1 ELSE EndNo(k - 1) + 1), EndNo(k) - 1)]

\* shlex.split(s): the whole line scanned from state "N"
Lex(s) ==
    LET r == LexRange(s, 1, Len(s))["N"] IN
    IF r.mode \in {"S", "D"} THEN [ok |-> FALSE, err |-> "No closing quotation", toks |-> <<>>]
    ELSE IF r.mode \in {"EW", "ED"} THEN [ok |-> FALSE, err |-> "No escaped character", toks |-> <<>>]
    ELSE [ok |-> TRUE, err |-> "",
          toks |-> TokensOf(IF r.mode = "W" THEN Append(r.ev, "END") ELSE r.ev)]

\* TerminalEngine.parse_command_line: the token list, or the ValueError text
parse_command_line(command_line) ==
    LET r == Lex(command_line) IN
    IF r.ok THEN [ok |-> TRUE, args |-> r.toks, err |-> ""]
    ELSE [ok |-> FALSE, args |-> <<>>, err |-> "Invalid command syntax: " \o r.err]

(***************************************************************************)
(* Regular expressions of the rule table: re.search(pattern, query,        *)
(* re.IGNORECASE) as a backtracking matcher with Python's priorities       *)
(* (leftmost start, alternatives in order, greedy repetition).             *)
(***************************************************************************)

\* literal text (compared case-insensitively)
Lit(s) == [k |-> "lit", s |-> s]
\* (?:a1|a2|...): alternatives in priority order, each a sequence of elements
Alt(alts) == [k |-> "alt", alts |-> alts]
\* (?:sub)? : greedy optional
Opt(sub) == [k |-> "alt", alts |-> <<sub, <<>>>>]
\* ([^"']+) : capturing group, greedy
Grp == [k |-> "grp"]
\* ["']?
Quo == Opt(<<Alt(<< <<Lit("\"")>>, <<Lit("'")>> >>)>>)

NoMatch == [ok |-> FALSE, caps |-> <<>>]

\* length of the run of characters other than quotes starting at p
RunLen(lo, p) ==
    LET qs == {i \in p..Len(lo) : CharAt(lo, i) \in {"\"", "'"}}
    IN (IF qs = {} THEN Len(lo) + 1 ELSE SetMin(qs)) - p

RECURSIVE Match(_, _, _, _)
RECURSIVE TryAlts(_, _, _, _, _, _)
RECURSIVE TryGrp(_, _, _, _, _)

\* match the element sequence es at position p of lo (the lowercased text);
\* captured text is taken from orig
Match(es, lo, orig, p) ==
    IF Len(es) = 0 THEN [ok |-> TRUE, caps |-> <<>>]
    ELSE LET e == Head(es)
             rest == Tail(es)
         IN CASE e.k = "lit" ->
                   IF p + Len(e.s) - 1 <= Len(lo) /\ SubSeq(lo, p, p + Len(e.s) - 1) = Lower(e.s)
                   THEN Match(rest, lo, orig, p + Len(e.s))
                   ELSE NoMatch
              [] e.k = "alt" -> TryAlts(e.alts, 1, rest, lo, orig, p)
              [] e.k = "grp" -> TryGrp(rest, lo, orig, p, RunLen(lo, p))

TryAlts(alts, i, rest, lo, orig, p) ==
    IF i > Len(alts) THEN NoMatch
    ELSE LET r == Match(alts[i] \o rest, lo, orig, p)
         IN IF r.ok THEN r ELSE TryAlts(alts, i + 1, rest, lo, orig, p)

\* the group takes the longest run of at most max characters after which the
\* rest of the pattern matches (greedy, giving back one character at a time)
TryGrp(rest, lo, orig, p, max) ==
    LET ns == {n \in 1..max : Match(rest, lo, orig, p + n).ok}
    IN IF ns = {} THEN NoMatch
       ELSE LET n == SetMax(ns)
            IN [ok |-> TRUE,
                caps |-> <<SubSeq(orig, p, p + n - 1)>> \o Match(rest, lo, orig, p + n).caps]

\* the match at the leftmost of the start positions ps at which the pattern matches
Leftmost(es, lo, orig, ps) == IF ps = {} THEN NoMatch ELSE Match(es, lo, orig, SetMin(ps))

SearchFrom(es, lo, orig) ==
    Leftmost(es, lo, orig, {p \in 1..(Len(lo) + 1) : Match(es, lo, orig, p).ok})

\* re.search(pattern, query, re.IGNORECASE): match.groups() when it matches
re_search(es, query) == SearchFrom(es, Lower(query), query)

(***************************************************************************)
(* str.format of a command template                                        *)
(***************************************************************************)

\* template pieces: literal text or a positional placeholder {n}
Txt(s) == [lit |-> s]
Arg(n) == [idx |-> n]

RECURSIVE FormatFrom(_, _, _)
FormatFrom(tpl, groups, i) ==
    IF i > Len(tpl) THEN [ok |-> TRUE, s |-> ""]
    ELSE LET rest == FormatFrom(tpl, groups, i + 1)
         IN IF "lit" \in DOMAIN tpl[i]
            THEN [ok |-> rest.ok, s |-> tpl[i].lit \o rest.s]
            ELSE IF tpl[i].idx + 1 > Len(groups)
                 THEN [ok |-> FALSE, s |-> ""]           \* IndexError
                 ELSE [ok |-> rest.ok, s |-> groups[tpl[i].idx + 1] \o rest.s]

\* command_template.format(*groups); ok = FALSE stands for IndexError
format(tpl, groups) == FormatFrom(tpl, groups, 1)

(***************************************************************************)
(* AICommandInterpreter: the rule table, the keyword fallback, interpret   *)
(***************************************************************************)

\* (?:s1|s2|...) over plain texts, and its optional form (?:s1|s2|...)?
LitAlt(strs) == Alt([i \in 1..Len(strs) |-> <<Lit(strs[i])>>])
LitOpt(strs) == Opt(<<LitAlt(strs)>>)

\* AICommandInterpreter._initialize_patterns: the rules in declaration order
patterns == <<
  [ patterns |-> <<
      <<Lit("create "), LitOpt(<<"a ">>), LitOpt(<<"new ">>), Lit("file "), LitOpt(<<"called ", "named ">>), Quo, Grp, Quo>>,
      <<Lit("make "), LitOpt(<<"a ">>), LitOpt(<<"new ">>), Lit("file "), Quo, Grp, Quo>>,
      <<Lit("touch "), LitOpt(<<"a ">>), LitOpt(<<"file ">>), Quo, Grp, Quo>> >>,
    command_template |-> <<Txt("touch "), Arg(0)>>,
    description |-> "Create a new file" ],
  [ patterns |-> <<
      <<Lit("create "), LitOpt(<<"a ">>), LitOpt(<<"new ">>), LitAlt(<<"directory", "folder", "dir">>), Lit(" "),
        LitOpt(<<"called ", "named ">>), Quo, Grp, Quo>>,
      <<Lit("make "), LitOpt(<<"a ">>), LitOpt(<<"new ">>), LitAlt(<<"directory", "folder", "dir">>), Lit(" "), Quo, Grp, Quo>>,
      <<Lit("mkdir "), Quo, Grp, Quo>> >>,
    command_template |-> <<Txt("mkdir "), Arg(0)>>,
    description |-> "Create a new directory" ],
  [ patterns |-> <<
      <<LitAlt(<<"list", "show", "display">>), Lit(" "), LitOpt(<<"the ">>), LitAlt(<<"files", "contents">>), Lit(" "),
        LitOpt(<<"in ", "of ">>), LitOpt(<<"this ">>), LitOpt(<<"directory", "folder">>)>>,
      <<LitAlt(<<"what", "which">>), Lit(" files are "), LitAlt(<<"in ", "here", "there">>)>>,
      <<Lit("show me "), LitOpt(<<"the ">>), LitAlt(<<"files", "contents">>)>>,
      <<Lit("list "), LitOpt(<<"all ">>), LitAlt(<<"files", "everything">>)>> >>,
    command_template |-> <<Txt("ls -la")>>,
    description |-> "List directory contents" ],
  [ patterns |-> <<
      <<LitAlt(<<"go to", "navigate to", "change to", "cd to">>), Lit(" "), LitOpt(<<"the ">>),
        LitAlt(<<"directory", "folder">>), Lit(" "), Quo, Grp, Quo>>,
      <<LitAlt(<<"enter", "open">>), Lit(" "), LitOpt(<<"the ">>), LitAlt(<<"directory", "folder">>), Lit(" "), Quo, Grp, Quo>>,
      <<Lit("cd "), Quo, Grp, Quo>> >>,
    command_template |-> <<Txt("cd "), Arg(0)>>,
    description |-> "Change directory" ],
  [ patterns |-> <<
      <<Lit("copy "), LitOpt(<<"the ">>), Lit("file "), Quo, Grp, Quo, Lit(" to "), Quo, Grp, Quo>>,
      <<Lit("duplicate "), Quo, Grp, Quo, Lit(" "), LitAlt(<<"as ", "to ">>), Quo, Grp, Quo>>,
      <<Lit("cp "), Quo, Grp, Quo, Lit(" "), Quo, Grp, Quo>> >>,
    command_template |-> <<Txt("cp "), Arg(0), Txt(" "), Arg(1)>>,
    description |-> "Copy file" ],
  [ patterns |-> <<
      <<Lit("move "), LitOpt(<<"the ">>), Lit("file "), Quo, Grp, Quo, Lit(" to "), Quo, Grp, Quo>>,
      <<Lit("rename "), Quo, Grp, Quo, Lit(" "), LitAlt(<<"as ", "to ">>), Quo, Grp, Quo>>,
      <<Lit("mv "), Quo, Grp, Quo, Lit(" "), Quo, Grp, Quo>> >>,
    command_template |-> <<Txt("mv "), Arg(0), Txt(" "), Arg(1)>>,
    description |-> "Move/rename file" ],
  [ patterns |-> <<
      <<Lit("delete "), LitOpt(<<"the ">>), Lit("file "), Quo, Grp, Quo>>,
      <<Lit("remove "), LitOpt(<<"the ">>), Lit("file "), Quo, Grp, Quo>>,
      <<Lit("rm "), Quo, Grp, Quo>> >>,
    command_template |-> <<Txt("rm "), Arg(0)>>,
    description |-> "Delete file" ],
  [ patterns |-> <<
      <<Lit("delete "), LitOpt(<<"the ">>), LitAlt(<<"directory", "folder">>), Lit(" "), Quo, Grp, Quo>>,
      <<Lit("remove "), LitOpt(<<"the ">>), LitAlt(<<"directory", "folder">>), Lit(" "), Quo, Grp, Quo>>,
      <<Lit("rmdir "), Quo, Grp, Quo>> >>,
    command_template |-> <<Txt("rm -r "), Arg(0)>>,
    description |-> "Delete directory" ],
  [ patterns |-> <<
      <<LitAlt(<<"show", "display", "view", "read">>), Lit(" "), LitOpt(<<"the ">>),
        LitAlt(<<"contents of ", "file ">>), Quo, Grp, Quo>>,
      <<Lit("cat "), Quo, Grp, Quo>>,
      <<Lit("what"), LitAlt(<<"'s", " is">>), Lit(" in "), LitOpt(<<"the ">>), Lit("file "), Quo, Grp, Quo>> >>,
    command_template |-> <<Txt("cat "), Arg(0)>>,
    description |-> "Display file contents" ],
  [ patterns |-> <<
      <<LitAlt(<<"show", "list", "display">>), Lit(" "), LitOpt(<<"all ">>), LitOpt(<<"running ">>), Lit("processes")>>,
      <<Lit("what processes are running")>>,
      <<Lit("ps aux")>> >>,
    command_template |-> <<Txt("ps -af")>>,
    description |-> "List running processes" ],
  [ patterns |-> <<
      <<Lit("show "), LitOpt(<<"me ">>), LitAlt(<<"system", "memory">>), Lit(" "),
        LitAlt(<<"info", "information", "usage">>)>>,
      <<Lit("how much memory "), LitAlt(<<"am I", "are we">>), Lit(" using")>>,
      <<Lit("memory status")>> >>,
    command_template |-> <<Txt("free -h")>>,
    description |-> "Show memory usage" ],
  [ patterns |-> <<
      <<LitAlt(<<"show", "display">>), Lit(" disk "), LitAlt(<<"usage", "space">>)>>,
      <<Lit("how much "), LitOpt(<<"disk ">>), Lit("space "), LitAlt(<<"do I have", "is left", "is available">>)>>,
      <<Lit("df -h")>> >>,
    command_template |-> <<Txt("df -h")>>,
    description |-> "Show disk usage" ],
  [ patterns |-> <<
      <<Alt(<< <<Lit("where am I")>>,
             <<Lit("what"), LitAlt(<<"'s", " is">>), Lit(" "), LitOpt(<<"my ">>), Lit("current "),
               LitAlt(<<"directory", "location">>)>> >>)>>,
      <<LitAlt(<<"show", "print">>), Lit(" "), LitOpt(<<"current ">>), LitAlt(<<"directory", "working directory">>)>>,
      <<Lit("pwd")>> >>,
    command_template |-> <<Txt("pwd")>>,
    description |-> "Show current directory" ],
  [ patterns |-> <<
      <<Lit("create "), LitOpt(<<"a ">>), LitOpt(<<"new ">>), LitAlt(<<"directory", "folder">>), Lit(" "),
        LitOpt(<<"called ", "named ">>), Quo, Grp, Quo, Lit(" and move "), Quo, Grp, Quo, Lit(" "),
        LitAlt(<<"into it", "there">>)>>,
      <<Lit("make "), LitOpt(<<"a ">>), LitAlt(<<"directory", "folder">>), Lit(" "), Quo, Grp, Quo, Lit(" and put "),
        Quo, Grp, Quo, Lit(" in it")>> >>,
    command_template |-> <<Txt("mkdir "), Arg(0), Txt(" && mv "), Arg(1), Txt(" "), Arg(0), Txt("/")>>,
    description |-> "Create directory and move file into it" ],
  [ patterns |-> <<
      <<Lit("find "), LitOpt(<<"all ">>), Lit("files "), LitOpt(<<"called ", "named ", "with name ">>), Quo, Grp, Quo>>,
      <<Lit("search for "), LitOpt(<<"files ">>), Quo, Grp, Quo>>,
      <<Lit("locate "), Quo, Grp, Quo>> >>,
    command_template |-> <<Txt("find . -name \"*"), Arg(0), Txt("*\"")>>,
    description |-> "Find files by name" ],
  [ patterns |-> <<
      <<Lit("search for "), Quo, Grp, Quo, Lit(" in "), LitOpt(<<"file ">>), Quo, Grp, Quo>>,
      <<Lit("find "), Quo, Grp, Quo, Lit(" in "), Quo, Grp, Quo>>,
      <<Lit("grep "), Quo, Grp, Quo, Lit(" "), Quo, Grp, Quo>> >>,
    command_template |-> <<Txt("grep \""), Arg(0), Txt("\" "), Arg(1)>>,
    description |-> "Search for text in file" ]
>>

\* AICommandInterpreter._fallback_interpretation: ordered keyword sets
keywords_commands == <<
    [keywords |-> <<"help", "commands", "what can you do">>, command |-> "help",
     description |-> "Show available commands"],
    [keywords |-> <<"list", "show", "files">>, command |-> "ls",
     description |-> "List files in current directory"],
    [keywords |-> <<"processes", "running">>, command |-> "ps",
     description |-> "Show running processes"],
    [keywords |-> <<"memory", "ram">>, command |-> "free",
     description |-> "Show memory usage"],
    [keywords |-> <<"disk", "space">>, command |-> "df",
     description |-> "Show disk usage"],
    [keywords |-> <<"where", "location", "directory">>, command |-> "pwd",
     description |-> "Show current directory"],
    [keywords |-> <<"clear", "clean">>, command |-> "clear",
     description |-> "Clear the terminal screen"] >>

RECURSIVE FallbackFrom(_, _, _)
FallbackFrom(query, table, i) ==
    IF i > Len(table) THEN [command |-> "", explanation |-> "", set |-> 0]
    ELSE IF \E j \in 1..Len(table[i].keywords) : Contains(query, table[i].keywords[j])
    THEN [command |-> table[i].command,
          explanation |-> "Interpreted as: " \o table[i].command \o " - " \o table[i].description,
          set |-> i]
    ELSE FallbackFrom(query, table, i + 1)

\* a keyword fallback in which the last keyword set found in the query wins
fallback_last_set(query) ==
    LET found == {i \in 1..Len(keywords_commands) :
                     \E j \in 1..Len(keywords_commands[i].keywords) :
                        Contains(query, keywords_commands[i].keywords[j])}
    IN  IF found = {} THEN [command |-> "", explanation |-> "", set |-> 0]
        ELSE [command |-> keywords_commands[SetMax(found)].command,
              explanation |-> "Interpreted as: " \o keywords_commands[SetMax(found)].command
                              \o " - " \o keywords_commands[SetMax(found)].description,
              set |-> SetMax(found)]

\* _fallback_interpretation(query); set is the keyword set that matched (0: none)
_fallback_interpretation(query) == FallbackFrom(query, keywords_commands, 1)

\* the result of one pattern of a rule whose regular expression gave m: a
\* command when it matched and the template substitution did not fail
Substitute(rule, m) ==
    LET f == format(rule.command_template, m.caps)
    IN [found |-> m.ok /\ f.ok, command |-> f.s]

\* pattern j of a rule tried on the query
TryPattern(query, rule, j) == Substitute(rule, re_search(rule.patterns[j], query))

\* position of pattern j of rule r in the scan order of the two nested loops
ScanPos(rj) == rj[1] * 100 + rj[2]

\* what the scan returns for its first hit
Hit(query, rule, rj, command) ==
    [found |-> TRUE, command |-> command,
     explanation |-> "Interpreted '" \o query \o "' as: " \o command
                     \o "\nAction: " \o rule.description,
     rule |-> rj[1], pat |-> rj[2]]

FirstHit(query, rules, rj) ==
    Hit(query, rules[rj[1]], rj, TryPattern(query, rules[rj[1]], rj[2]).command)

\* a scan that lets the last pattern that produces a command win
LatestOf(query, rules, hits) ==
    IF hits = {}
    THEN [found |-> FALSE, command |-> "", explanation |-> "", rule |-> 0, pat |-> 0]
    ELSE FirstHit(query, rules, CHOOSE rj \in hits : \A o \in hits : ScanPos(rj) >= ScanPos(o))

EarliestOf(query, rules, hits) ==
    IF hits = {}
    THEN [found |-> FALSE, command |-> "", explanation |-> "", rule |-> 0, pat |-> 0]
    ELSE FirstHit(query, rules, CHOOSE rj \in hits : \A o \in hits : ScanPos(rj) <= ScanPos(o))

\* the scan of a rule table (for pattern_group ... for pattern ...): the
\* first pattern, in declaration order, that produces a command
ScanRules(query, rules) ==
    EarliestOf(query, rules,
               {rj \in {<<r, j>> : r \in 1..Len(rules), j \in 1..4} :
                   /\ rj[2] <= Len(rules[rj[1]].patterns)
                   /\ TryPattern(query, rules[rj[1]], rj[2]).found})

ScanPatterns(query) == ScanRules(query, patterns)

\* _pattern_match_interpret with a last return that gives no explanation
InterpretationUnexplained(query, sc, fb) ==
    IF sc.found
    THEN [success |-> TRUE, command |-> sc.command, explanation |-> sc.explanation,
          via |-> "pattern", rule |-> sc.rule, pat |-> sc.pat]
    ELSE IF fb.command # ""
    THEN [success |-> TRUE, command |-> fb.command, explanation |-> fb.explanation,
          via |-> "fallback", rule |-> 0, pat |-> 0]
    ELSE [success |-> FALSE, command |-> "", explanation |-> "",
          via |-> "none", rule |-> 0, pat |-> 0]

\* the return statements of _pattern_match_interpret, given the result of
\* the scan and of the keyword fallback
Interpretation(query, sc, fb) ==
    IF sc.found
    THEN [success |-> TRUE, command |-> sc.command, explanation |-> sc.explanation,
          via |-> "pattern", rule |-> sc.rule, pat |-> sc.pat]
    ELSE IF fb.command # ""
    THEN [success |-> TRUE, command |-> fb.command, explanation |-> fb.explanation,
          via |-> "fallback", rule |-> 0, pat |-> 0]
    ELSE [success |-> FALSE, command |-> "",
          explanation |-> "Could not interpret: '" \o query \o "'",
          via |-> "none", rule |-> 0, pat |-> 0]

\* _pattern_match_interpret(query).  via tells which part produced the result:
\* "pattern" (with rule and pat), "fallback" or "none"
_pattern_match_interpret(query) ==
    Interpretation(query, ScanPatterns(query), _fallback_interpretation(Lower(query)))

\* the body of interpret for the stripped query
InterpretStripped(query) ==
    IF query = ""
    THEN [success |-> FALSE, command |-> "", explanation |-> "Empty query",
          via |-> "empty", rule |-> 0, pat |-> 0]
    ELSE _pattern_match_interpret(query)

\* AICommandInterpreter.interpret with no remote model (use_gemini = False)
interpret(natural_language_query) == InterpretStripped(Strip(natural_language_query))

\* What self.model.generate_content(prompt) and response.text give: an
\* exception (service error, timeout of the client, blocked answer) or a text.
Responses ==
    {[kind |-> "raise", text |-> ""],
     [kind |-> "text", text |-> ""],
     [kind |-> "text", text |-> " \n"],
     [kind |-> "text", text |-> "CANNOT_INTERPRET"],
     [kind |-> "text", text |-> " CANNOT_INTERPRET\n"],
     [kind |-> "text", text |-> "ls -la"],
     [kind |-> "text", text |-> "date\n"]}

\* the remote model is not called
NoResponse == [kind |-> "none", text |-> ""]

\* an interpreter that gives up when the remote model has no command
interpret_gemini_only(natural_language_query, gemini, response) ==
    LET query == Strip(natural_language_query)
    IN  [asked |-> query # "" /\ gemini.use_gemini /\ gemini.model,
         res |-> IF query # "" /\ gemini.use_gemini /\ gemini.model
                 THEN IF /\ response.kind = "text"
                         /\ Strip(response.text) \notin {"CANNOT_INTERPRET", ""}
                      THEN [success |-> TRUE, command |-> Strip(response.text),
                            explanation |-> "Interpreted '" \o natural_language_query
                                            \o "' as: " \o Strip(response.text)
                                            \o "\nAction: Using Gemini AI interpretation",
                            via |-> "gemini", rule |-> 0, pat |-> 0]
                      ELSE [success |-> FALSE, command |-> "",
                            explanation |-> "Could not interpret: '" \o query \o "'",
                            via |-> "none", rule |-> 0, pat |-> 0]
                 ELSE InterpretStripped(query)]

\* AICommandInterpreter.interpret of an interpreter whose _initialize_gemini
\* left use_gemini and model as in gemini, when the remote model would give
\* response.  asked tells whether generate_content is called; res is the
\* result.
interpret_gemini(natural_language_query, gemini, response) ==
    LET query == Strip(natural_language_query)
    IN  [asked |-> query # "" /\ gemini.use_gemini /\ gemini.model,
         res |-> IF /\ query # "" /\ gemini.use_gemini /\ gemini.model
                    /\ response.kind = "text"
                    /\ Strip(response.text) \notin {"CANNOT_INTERPRET", ""}
                 THEN [success |-> TRUE, command |-> Strip(response.text),
                       explanation |-> "Interpreted '" \o natural_language_query
                                       \o "' as: " \o Strip(response.text)
                                       \o "\nAction: Using Gemini AI interpretation",
                       via |-> "gemini", rule |-> 0, pat |-> 0]
                 ELSE InterpretStripped(query)]

\* the first entry _initialize_gemini gives chat_history
system_context ==
    [role |-> "system", content |-> "You are an AI assistant in a terminal environment. ..."]

\* AICommandInterpreter.chat(user_input) of an interpreter left as in gemini
\* with the chat history log, when chat_model.send_message would give sent
\* (an exception or a text) and self.interpret(command) would give i: what
\* chat returns (the command None is the empty text) and the chat_history
\* it leaves
chat(user_input, gemini, log, sent, i) ==
    IF ~gemini.use_gemini
    THEN [out |-> [success |-> FALSE, command |-> "",
                   response |-> "Chat mode requires Gemini to be configured."],
          chat_history |-> log]
    ELSE IF StartsWith(user_input, "!")
    THEN LET command == Strip(SubSeq(user_input, 2, Len(user_input)))
         IN  [out |-> IF i.success
                      THEN [success |-> TRUE, command |-> i.command,
                            response |-> "Executing command: " \o i.command \o "\n"
                                         \o i.explanation]
                      ELSE [success |-> FALSE, command |-> "",
                            response |-> "Could not interpret command: " \o command],
              chat_history |-> log]
    ELSE LET asked == Append(log, [role |-> "user", content |-> user_input])
             answered == Append(asked, [role |-> "assistant", content |-> sent.text])
         IN  IF sent.kind = "raise"
             THEN [out |-> [success |-> FALSE, command |-> "",
                            response |-> "Chat error: " \o sent.text],
                   chat_history |-> asked]
             ELSE [out |-> [success |-> TRUE, command |-> "", response |-> sent.text],
                   chat_history |-> IF Len(answered) > 12
                                    THEN <<answered[1]>>
                                         \o SubSeq(answered, Len(answered) - 9, Len(answered))
                                    ELSE answered]

\* what _initialize_gemini can leave: no key (or configure failed), the
\* model built but the chat not started, both in place
Geminis ==
    {[use_gemini |-> FALSE, model |-> FALSE], [use_gemini |-> FALSE, model |-> TRUE],
     [use_gemini |-> TRUE, model |-> TRUE]}

\* the list of AICommandInterpreter.get_suggestions
suggestions ==
    <<"create a new file called example.txt",
      "create a new folder called documents",
      "list all files",
      "show me the files",
      "copy file.txt to backup.txt",
      "move file.txt to documents folder",
      "delete the file temp.txt",
      "show the contents of readme.txt",
      "find files named test",
      "search for 'hello' in file.txt",
      "show system memory usage",
      "show disk usage",
      "what processes are running",
      "where am I",
      "create a folder called projects and move main.py there">>

\* the queries interpret is called with: the suggestions, queries with
\* blanks around them, in capitals, without a match and without text, and
\* queries with keywords of several fallback sets
Queries ==
    {suggestions[k] : k \in 1..Len(suggestions)}
    \cup {"  LIST ALL FILES ", "Where am I?", "xyzzy plugh quux", "", "   "}
    \cup {"help me list running processes", "free ram at this location",
          "clean up disk space", "what can you do with memory",
          "running low on RAM and disk"}

(***************************************************************************)
(* Paths and the file system seen by the file-operation handlers.          *)
(* A path is the sequence of its components below the root "/"; the file   *)
(* system is the set of directories and the set of regular files.          *)
(***************************************************************************)

\* the components of a path text, as pathlib.Path(path_str) keeps them:
\* empty components and "." are dropped, ".." is kept
ParsePath(path_str) ==
    LET n == Len(path_str)
        seps == {i \in 1..n : CharAt(path_str, i) = "/"} \cup {0, n + 1}
        starts == {i \in seps : i <= n}
        NextSep(i) == SetMin({j \in seps : j > i})
        parts == {i \in starts : NextSep(i) > i + 1 /\ SubSeq(path_str, i + 1, NextSep(i) - 1) # "."}
        PartNo(k) == CHOOSE i \in parts : Cardinality({j \in parts : j < i}) = k - 1
    IN [k \in 1..Cardinality(parts) |-> SubSeq(path_str, PartNo(k) + 1, NextSep(PartNo(k)) - 1)]

\* the path texts the submitted lines hold, parsed once
CachedPaths ==
    {"d", "nope", "f", "../d", "/r/d", "/r/e", "demo.txt", "d2", "-r", "cat=pwd", "e=",
     "Makefile", "make", "create.txt", "/r"}

parse_path_table == [x \in CachedPaths |-> ParsePath(x)]

\* pathlib.Path(path_str) as the handlers call it
PathOf(path_str) ==
    IF path_str \in CachedPaths THEN parse_path_table[path_str] ELSE ParsePath(path_str)

\* Path.is_absolute()
is_absolute(path_str) == StartsWith(path_str, "/")

\* str(path) of an absolute path
PathStr(path) == IF Len(path) = 0 THEN "/" ELSE "/" \o Join("/", path)

\* FileOperations._resolve_path
_resolve_path(path_str, current_directory) ==
    IF is_absolute(path_str) THEN PathOf(path_str) ELSE current_directory \o PathOf(path_str)

Parent(path) == SubSeq(path, 1, Len(path) - 1)

\* The kernel's walk along a path: every component is looked up in an
\* existing directory, ".." steps to the parent.  ok is FALSE when some
\* directory on the way does not exist; p is the path without "..".
RECURSIVE Walk(_, _, _, _)
Walk(path, i, acc, dirs) ==
    IF i > Len(path) THEN [ok |-> TRUE, p |-> acc]
    ELSE IF acc \notin dirs THEN [ok |-> FALSE, p |-> acc]
    ELSE IF path[i] = ".."
         THEN Walk(path, i + 1, IF Len(acc) = 0 THEN acc ELSE Parent(acc), dirs)
         ELSE Walk(path, i + 1, Append(acc, path[i]), dirs)

Real(path, dirs) == Walk(path, 1, <<>>, dirs)

\* Path.exists(), Path.is_dir(), Path.is_file()
exists(path, dirs, files) == Real(path, dirs).ok /\ Real(path, dirs).p \in dirs \cup files
is_dir(path, dirs) == Real(path, dirs).ok /\ Real(path, dirs).p \in dirs
is_file(path, dirs, files) == Real(path, dirs).ok /\ Real(path, dirs).p \in files

\* p is q or lies below q
IsUnder(p, q) == Len(q) <= Len(p) /\ SubSeq(p, 1, Len(q)) = q

\* Path.resolve() of an existing path (no symbolic links in the model)
resolve(path, dirs) == Real(path, dirs).p

\* a CommandResult
Result(code, out, err) == [code |-> code, out |-> out, err |-> err]

(***************************************************************************)
(* FileOperations handlers.  A session st is the record of the fields the  *)
(* handlers read and write: cwd (current_directory), dirs, files, aliases. *)
(* Every handler gives the CommandResult res and the session st after it.  *)
(***************************************************************************)

\* TerminalEngine.home_directory (Path.home())
home_directory == <<"h">>

Children(p, dirs, files) == {q \in dirs \cup files : Len(q) = Len(p) + 1 /\ IsUnder(q, p)}

\* the last component as written (Path.name)
LastRaw(path) == IF Len(path) = 0 THEN "" ELSE path[Len(path)]

\* a cd that assigns current_directory before it validates the target
cdAssignsFirst(args, st, fault) ==
    LET target == IF Len(args) = 0 THEN home_directory ELSE _resolve_path(args[1], st.cwd)
        moved == [st EXCEPT !.cwd = resolve(target, st.dirs)]
    IN IF fault = "perm"
       THEN [res |-> Result(1, "", "cd: permission denied: " \o PathStr(target)), st |-> moved]
       ELSE IF fault = "other"
       THEN [res |-> Result(1, "", "cd: [Errno 5] Input/output error: '" \o PathStr(target) \o "'"),
             st |-> moved]
       ELSE IF ~exists(target, st.dirs, st.files)
       THEN [res |-> Result(1, "", "cd: no such file or directory: " \o PathStr(target)), st |-> moved]
       ELSE IF ~is_dir(target, st.dirs)
       THEN [res |-> Result(1, "", "cd: not a directory: " \o PathStr(target)), st |-> moved]
       ELSE [res |-> Result(0, "", ""), st |-> moved]

\* FileOperations.cd.  fault is what the operating system does to the calls
\* inside the try block: "none", "perm" (PermissionError) or "other".
cd(args, st, fault) ==
    LET target == IF Len(args) = 0 THEN home_directory ELSE _resolve_path(args[1], st.cwd)
    IN IF fault = "perm"
       THEN [res |-> Result(1, "", "cd: permission denied: " \o PathStr(target)), st |-> st]
       ELSE IF fault = "other"
       THEN [res |-> Result(1, "", "cd: [Errno 5] Input/output error: '" \o PathStr(target) \o "'"), st |-> st]
       ELSE IF ~exists(target, st.dirs, st.files)
       THEN [res |-> Result(1, "", "cd: no such file or directory: " \o PathStr(target)), st |-> st]
       ELSE IF ~is_dir(target, st.dirs)
       THEN [res |-> Result(1, "", "cd: not a directory: " \o PathStr(target)), st |-> st]
       ELSE [res |-> Result(0, "", ""), st |-> [st EXCEPT !.cwd = resolve(target, st.dirs)]]

\* FileOperations.pwd
pwd(args, st) == [res |-> Result(0, PathStr(st.cwd), ""), st |-> st]

\* os.mkdir(path): the error it raises ("" for none) and the directories after
OsMkdir(path, dirs, files) ==
    LET w == Real(path, dirs)
    IN IF ~w.ok THEN [err |-> "ENOENT", dirs |-> dirs]
       ELSE IF w.p \in dirs \cup files THEN [err |-> "EEXIST", dirs |-> dirs]
       ELSE [err |-> "", dirs |-> dirs \cup {w.p}]

\* Path.mkdir(parents=True, exist_ok=True)
RECURSIVE MkdirParents(_, _, _)
MkdirParents(path, dirs, files) ==
    LET m == OsMkdir(path, dirs, files)
    IN IF m.err = "" THEN m
       ELSE IF m.err = "EEXIST"
       THEN (IF is_dir(path, dirs) THEN [err |-> "", dirs |-> dirs] ELSE m)
       ELSE IF Len(path) = 0 THEN m
       ELSE LET up == MkdirParents(Parent(path), dirs, files)
            IN IF up.err # "" THEN up
               ELSE LET again == OsMkdir(path, up.dirs, files)
                    IN IF again.err = "EEXIST" /\ is_dir(path, up.dirs)
                       THEN [err |-> "", dirs |-> up.dirs] ELSE again

\* the loop of FileOperations.mkdir over the directory operands
RECURSIVE MkdirFrom(_, _, _, _, _)
MkdirFrom(names, i, parents, st, errors) ==
    IF i > Len(names) THEN [errors |-> errors, st |-> st]
    ELSE LET target == _resolve_path(names[i], st.cwd)
             m == IF parents THEN MkdirParents(target, st.dirs, st.files)
                  ELSE OsMkdir(target, st.dirs, st.files)
             msg == "mkdir: cannot create directory '" \o names[i] \o "': "
                    \o (IF m.err = "EEXIST" THEN "File exists"
                        ELSE "[Errno 2] No such file or directory: '" \o PathStr(target) \o "'")
         IN MkdirFrom(names, i + 1, parents, [st EXCEPT !.dirs = m.dirs],
                      IF m.err = "" THEN errors ELSE Append(errors, msg))

IsFlag(arg) == StartsWith(arg, "-")

\* the operands of an argument list: the arguments that are not flags
Operands(args) == SelectSeq(args, LAMBDA a : ~IsFlag(a))

\* a mkdir that makes the directory it created the current directory
mkdirEnters(args, st) ==
    IF Len(args) = 0 \/ Len(Operands(args)) = 0
    THEN [res |-> Result(1, "", "mkdir: missing operand"), st |-> st]
    ELSE LET parents == \E i \in 1..Len(args) : IsFlag(args[i]) /\ Contains(args[i], "p")
             r == MkdirFrom(Operands(args), 1, parents, st, <<>>)
         IN [res |-> IF Len(r.errors) > 0 THEN Result(1, "", Join("\n", r.errors)) ELSE Result(0, "", ""),
             st |-> IF Len(r.errors) > 0 THEN r.st
                    ELSE [r.st EXCEPT !.cwd = _resolve_path(Operands(args)[1], st.cwd)]]

\* FileOperations.mkdir
mkdir(args, st) ==
    IF Len(args) = 0 \/ Len(Operands(args)) = 0
    THEN [res |-> Result(1, "", "mkdir: missing operand"), st |-> st]
    ELSE LET parents == \E i \in 1..Len(args) : IsFlag(args[i]) /\ Contains(args[i], "p")
             r == MkdirFrom(Operands(args), 1, parents, st, <<>>)
         IN [res |-> IF Len(r.errors) > 0 THEN Result(1, "", Join("\n", r.errors)) ELSE Result(0, "", ""),
             st |-> r.st]

\* the loop of FileOperations.rmdir: Path.rmdir() on every argument
RECURSIVE RmdirFrom(_, _, _, _)
RmdirFrom(args, i, st, errors) ==
    IF i > Len(args) THEN [errors |-> errors, st |-> st]
    ELSE LET target == _resolve_path(args[i], st.cwd)
             w == Real(target, st.dirs)
             prefix == "rmdir: failed to remove '" \o args[i] \o "': "
             err == IF ~w.ok \/ w.p \notin st.dirs \cup st.files THEN "No such file or directory"
                    ELSE IF w.p \in st.files
                    THEN "[Errno 20] Not a directory: '" \o PathStr(target) \o "'"
                    ELSE IF Len(w.p) = 0 \/ LastRaw(target) = ".."
                    THEN "[Errno 22] Invalid argument: '" \o PathStr(target) \o "'"
                    ELSE IF Children(w.p, st.dirs, st.files) # {} THEN "Directory not empty"
                    ELSE ""
         IN IF err = ""
            THEN RmdirFrom(args, i + 1, [st EXCEPT !.dirs = st.dirs \ {w.p}], errors)
            ELSE RmdirFrom(args, i + 1, st, Append(errors, prefix \o err))

\* FileOperations.rmdir
rmdir(args, st) ==
    IF Len(args) = 0 THEN [res |-> Result(1, "", "rmdir: missing operand"), st |-> st]
    ELSE LET r == RmdirFrom(args, 1, st, <<>>)
         IN [res |-> IF Len(r.errors) > 0 THEN Result(1, "", Join("\n", r.errors)) ELSE Result(0, "", ""),
             st |-> r.st]

\* the loop of FileOperations.rm over the file operands
RECURSIVE RmFrom(_, _, _, _, _, _)
RmFrom(names, i, recursive, force, st, errors) ==
    IF i > Len(names) THEN [errors |-> errors, st |-> st]
    ELSE LET target == _resolve_path(names[i], st.cwd)
             w == Real(target, st.dirs)
             prefix == "rm: cannot remove '" \o names[i] \o "': "
         IN IF ~exists(target, st.dirs, st.files)
            THEN RmFrom(names, i + 1, recursive, force, st,
                        IF force THEN errors ELSE Append(errors, prefix \o "No such file or directory"))
            ELSE IF is_dir(target, st.dirs)
            THEN IF ~recursive
                 THEN RmFrom(names, i + 1, recursive, force, st, Append(errors, prefix \o "Is a directory"))
                 ELSE IF Len(w.p) = 0
                 \* shutil.rmtree("/") empties the tree and fails on the root itself
                 THEN RmFrom(names, i + 1, recursive, force,
                             [st EXCEPT !.dirs = {<<>>}, !.files = {}],
                             IF force THEN errors
                             ELSE Append(errors, prefix \o "[Errno 16] Device or resource busy: '/'"))
                 \* shutil.rmtree(target)
                 ELSE RmFrom(names, i + 1, recursive, force,
                             [st EXCEPT !.dirs = {q \in st.dirs : ~IsUnder(q, w.p)},
                                        !.files = {q \in st.files : ~IsUnder(q, w.p)}],
                             errors)
            \* target.unlink()
            ELSE RmFrom(names, i + 1, recursive, force, [st EXCEPT !.files = st.files \ {w.p}], errors)

\* FileOperations.rm
rm(args, st) ==
    IF Len(args) = 0 \/ Len(Operands(args)) = 0
    THEN [res |-> Result(1, "", "rm: missing operand"), st |-> st]
    ELSE LET recursive == \E i \in 1..Len(args) :
                              IsFlag(args[i]) /\ (Contains(args[i], "r") \/ Contains(args[i], "R"))
             force == \E i \in 1..Len(args) : IsFlag(args[i]) /\ Contains(args[i], "f")
             r == RmFrom(Operands(args), 1, recursive, force, st, <<>>)
         IN [res |-> IF Len(r.errors) > 0 THEN Result(1, "", Join("\n", r.errors)) ELSE Result(0, "", ""),
             st |-> r.st]

\* FileOperations.mv
mv(args, st) ==
    IF Len(args) < 2 THEN [res |-> Result(1, "", "mv: missing destination file operand"), st |-> st]
    ELSE LET source == args[1]
             src_path == _resolve_path(source, st.cwd)
             dest0 == _resolve_path(args[2], st.cwd)
             dest_path == IF is_dir(dest0, st.dirs) THEN Append(dest0, LastRaw(src_path)) ELSE dest0
             ws == Real(src_path, st.dirs)
             wd == Real(dest_path, st.dirs)
             srcDir == ws.p \in st.dirs
             \* os.rename(src_path, dest_path): the error it raises, "" for none
             err == IF ~wd.ok \/ Len(wd.p) = 0 \/ Parent(wd.p) \notin st.dirs
                    THEN "[Errno 2] No such file or directory"
                    ELSE IF LastRaw(src_path) = ".." \/ LastRaw(dest_path) = ".." \/ Len(ws.p) = 0
                    THEN "[Errno 16] Device or resource busy"
                    ELSE IF wd.p = ws.p THEN ""
                    ELSE IF srcDir /\ IsUnder(wd.p, ws.p) THEN "[Errno 22] Invalid argument"
                    ELSE IF srcDir /\ wd.p \in st.files THEN "[Errno 20] Not a directory"
                    ELSE IF ~srcDir /\ wd.p \in st.dirs THEN "[Errno 21] Is a directory"
                    ELSE IF srcDir /\ wd.p \in st.dirs /\ Children(wd.p, st.dirs, st.files) # {}
                    THEN "[Errno 39] Directory not empty"
                    ELSE ""
             Moved(q) == wd.p \o SubSeq(q, Len(ws.p) + 1, Len(q))
         IN IF ~exists(src_path, st.dirs, st.files)
            THEN [res |-> Result(1, "", "mv: cannot stat '" \o source \o "': No such file or directory"),
                  st |-> st]
            ELSE IF err # ""
            THEN [res |-> Result(1, "", "mv: cannot move '" \o source \o "': " \o err \o ": '"
                                        \o PathStr(src_path) \o "' -> '" \o PathStr(dest_path) \o "'"),
                  st |-> st]
            ELSE IF wd.p = ws.p THEN [res |-> Result(0, "", ""), st |-> st]
            ELSE [res |-> Result(0, "", ""),
                  st |-> [st EXCEPT
                     !.dirs = {q \in st.dirs : ~IsUnder(q, ws.p) /\ q # wd.p}
                              \cup {Moved(q) : q \in {d \in st.dirs : IsUnder(d, ws.p)}},
                     !.files = {q \in st.files : ~IsUnder(q, ws.p) /\ q # wd.p}
                               \cup {Moved(q) : q \in {f \in st.files : IsUnder(f, ws.p)}}]]

\* the loop of FileOperations.touch: Path.touch() on every argument
RECURSIVE TouchFrom(_, _, _, _)
TouchFrom(args, i, st, errors) ==
    IF i > Len(args) THEN [errors |-> errors, st |-> st]
    ELSE LET target == _resolve_path(args[i], st.cwd)
             w == Real(target, st.dirs)
         IN IF w.ok /\ w.p \in st.dirs \cup st.files
            THEN TouchFrom(args, i + 1, st, errors)
            ELSE IF w.ok /\ Len(w.p) > 0 /\ Parent(w.p) \in st.dirs
            THEN TouchFrom(args, i + 1, [st EXCEPT !.files = st.files \cup {w.p}], errors)
            ELSE TouchFrom(args, i + 1, st,
                           Append(errors, "touch: cannot touch '" \o args[i]
                                          \o "': [Errno 2] No such file or directory: '"
                                          \o PathStr(target) \o "'"))

\* FileOperations.touch
touch(args, st) ==
    IF Len(args) = 0 THEN [res |-> Result(1, "", "touch: missing file operand"), st |-> st]
    ELSE LET r == TouchFrom(args, 1, st, <<>>)
         IN [res |-> IF Len(r.errors) > 0 THEN Result(1, "", Join("\n", r.errors)) ELSE Result(0, "", ""),
             st |-> r.st]

(***************************************************************************)
(* SystemCommands.alias.  The alias table is the dict self.aliases, kept   *)
(* as the sequence of its (name, command) items in insertion order.        *)
(***************************************************************************)

AliasNames(aliases) == {aliases[i].name : i \in 1..Len(aliases)}

\* self.aliases[name]
AliasGet(aliases, name) == (CHOOSE i \in 1..Len(aliases) : aliases[i].name = name)

\* self.aliases[name] = command
AliasSet(aliases, name, command) ==
    IF name \in AliasNames(aliases)
    THEN [aliases EXCEPT ![AliasGet(aliases, name)].command = command]
    ELSE Append(aliases, [name |-> name, command |-> command])

\* position of the first "=" of arg (0 when there is none)
FirstEq(arg) ==
    LET eqs == {i \in 1..Len(arg) : CharAt(arg, i) = "="}
    IN IF eqs = {} THEN 0 ELSE SetMin(eqs)

\* the quote stripping of SystemCommands.alias
Unquote(command) ==
    IF Len(command) >= 1 /\ CharAt(command, 1) = "\"" /\ CharAt(command, Len(command)) = "\""
    THEN SubSeq(command, 2, Len(command) - 1)
    ELSE IF Len(command) >= 1 /\ CharAt(command, 1) = "'" /\ CharAt(command, Len(command)) = "'"
    THEN SubSeq(command, 2, Len(command) - 1)
    ELSE command

AliasLine(a) == "alias " \o a.name \o "='" \o a.command \o "'"

\* the loop of SystemCommands.alias over its arguments
RECURSIVE AliasFrom(_, _, _)
AliasFrom(args, i, st) ==
    IF i > Len(args) THEN [res |-> Result(0, "", ""), st |-> st]
    ELSE LET arg == args[i]
             e == FirstEq(arg)
         IN IF e > 0
            THEN AliasFrom(args, i + 1,
                           [st EXCEPT !.aliases = AliasSet(st.aliases, SubSeq(arg, 1, e - 1),
                                                           Unquote(SubSeq(arg, e + 1, Len(arg))))])
            ELSE IF arg \in AliasNames(st.aliases)
            THEN [res |-> Result(0, AliasLine(st.aliases[AliasGet(st.aliases, arg)]), ""), st |-> st]
            ELSE [res |-> Result(1, "", "alias: " \o arg \o ": not found"), st |-> st]

\* SystemCommands.alias
alias(args, st) ==
    IF Len(args) = 0
    THEN [res |-> Result(0, Join("\n", [i \in 1..Len(st.aliases) |-> AliasLine(st.aliases[i])]), ""),
          st |-> st]
    ELSE AliasFrom(args, 1, st)

\* the loop of SystemCommands.unalias over its arguments
RECURSIVE UnaliasFrom(_, _, _, _)
UnaliasFrom(args, i, s, errors) ==
    IF i > Len(args)
    THEN [res |-> IF errors # <<>> THEN Result(1, "", Join("\n", errors)) ELSE Result(0, "", ""),
          st |-> s]
    ELSE IF args[i] = "-a" THEN UnaliasFrom(args, i + 1, [s EXCEPT !.aliases = <<>>], errors)
    ELSE IF args[i] \in AliasNames(s.aliases)
    THEN UnaliasFrom(args, i + 1,
                     [s EXCEPT !.aliases = SelectSeq(s.aliases, LAMBDA a : a.name # args[i])],
                     errors)
    ELSE UnaliasFrom(args, i + 1, s, Append(errors, "unalias: " \o args[i] \o ": not found"))

\* SystemCommands.unalias
unalias(args, s) ==
    IF Len(args) = 0 THEN [res |-> Result(1, "", "unalias: missing alias name"), st |-> s]
    ELSE UnaliasFrom(args, 1, s, <<>>)

\* the loop of SystemCommands.export over its arguments.  (The copy of the
\* variable that goes to os.environ is not part of the session.)
RECURSIVE ExportFrom(_, _, _)
ExportFrom(args, i, s) ==
    IF i > Len(args) THEN [res |-> Result(0, "", ""), st |-> s]
    ELSE LET arg == args[i]
             e == FirstEq(arg)
             \* self.terminal.environment_vars[key] = value
             EnvSet(env, key, value) ==
                 [name \in DOMAIN env \cup {key} |-> IF name = key THEN value ELSE env[name]]
         IN IF e > 0
            THEN ExportFrom(args, i + 1,
                            [s EXCEPT !.env = EnvSet(s.env, SubSeq(arg, 1, e - 1),
                                                     SubSeq(arg, e + 1, Len(arg)))])
            ELSE IF arg \in DOMAIN s.env THEN ExportFrom(args, i + 1, s)
            ELSE [res |-> Result(1, "", "export: " \o arg \o ": not found"), st |-> s]

\* SystemCommands.export; without arguments it is env, whose listing of the
\* variables is left open
export(args, s) ==
    IF Len(args) = 0 THEN [res |-> Result(0, "env: output", ""), st |-> s]
    ELSE ExportFrom(args, 1, s)

\* a history handler that shows the oldest 50 entries
historyOldest(args, log) ==
    IF log = <<>> THEN Result(0, "No commands in history.", "")
    ELSE LET shown == IF Len(log) > 50 THEN SubSeq(log, 1, 50) ELSE log
             Format4d(i) ==
                 (IF i < 10 THEN "   " ELSE IF i < 100 THEN "  " ELSE IF i < 1000 THEN " " ELSE "")
                 \o ToString(i)
         IN  Result(0, Join("\n", [i \in 1..Len(shown) |-> Format4d(i) \o "  " \o shown[i]]), "")

\* TerminalEngine.history for the command_history log
history(args, log) ==
    IF log = <<>> THEN Result(0, "No commands in history.", "")
    ELSE LET shown == IF Len(log) > 50 THEN SubSeq(log, Len(log) - 49, Len(log)) ELSE log
             \* f"{i:4d}"
             Format4d(i) ==
                 (IF i < 10 THEN "   " ELSE IF i < 100 THEN "  " ELSE IF i < 1000 THEN " " ELSE "")
                 \o ToString(i)
         IN  Result(0, Join("\n", [i \in 1..Len(shown) |-> Format4d(i) \o "  " \o shown[i]]), "")

(***************************************************************************)
(* TerminalEngine.execute_command                                          *)
(***************************************************************************)

\* the keys of TerminalEngine.builtin_commands
builtin_commands ==
    {"ls", "cd", "pwd", "mkdir", "rmdir", "rm", "cp", "mv", "touch", "cat", "head", "tail",
     "find", "grep", "ps", "kill", "jobs", "bg", "fg", "env", "export", "alias", "unalias",
     "which", "whoami", "date", "uptime", "top", "htop", "free", "df", "du", "lscpu", "lsblk",
     "help", "exit", "clear", "history", "ai"}

\* built-ins that only report: they read the session and the host and write
\* neither; their result depends on the host and is left open
ReportingBuiltins ==
    {"ls", "cat", "head", "tail", "find", "grep", "ps", "jobs", "env", "whoami",
     "date", "uptime", "top", "htop", "free", "df", "du", "lscpu", "lsblk", "help", "clear"}

\* SystemCommands.which in a host where shutil.which finds the programs on_path
which(args, s, on_path) ==
    IF Len(args) = 0 THEN Result(1, "", "which: missing command name")
    ELSE Result(0,
                Join("\n", [i \in 1..Len(args) |->
                    IF args[i] \in builtin_commands THEN args[i] \o ": shell builtin"
                    ELSE IF args[i] \in AliasNames(s.aliases)
                    THEN args[i] \o ": aliased to '"
                         \o s.aliases[AliasGet(s.aliases, args[i])].command \o "'"
                    ELSE IF args[i] \in on_path THEN "/usr/bin/" \o args[i]
                    ELSE args[i] \o ": not found"]),
                "")

natural_language_indicators ==
    <<" a ", " the ", " and ", " or ", " to ", " from ", " in ", " of ",
      "create", "make", "show me", "list all", "find all", "what is",
      "where am", "how much", "search for">>

\* a classifier that takes every line for a literal command
is_natural_language_never(command_line) == FALSE

\* is_natural_language of execute_command
is_natural_language(command_line) ==
    \E i \in 1..Len(natural_language_indicators) :
        Contains(Lower(command_line), natural_language_indicators[i])

(***************************************************************************)
(* Bounds and inputs                                                       *)
(***************************************************************************)

\* number of lines the front end submits in a run
MaxCmds == 2

\* Nested execute_command calls the interpreter's stack has room for (a
\* scaled-down stand-in for Python's recursion limit): a call beyond it
\* raises RecursionError.
RecursionLimit == 4

\* entries of chat_history beyond which chat is not called again
MaxChat == 13

\* the lines the front end submits
Lines ==
    {"", "   ", "pwd", "create a new file called demo.txt",
     "touch make", "cat Makefile", "mkdir make", "rm create.txt",
     "show me all files", "xyzzy plugh quux",
     "ai xyzzy plugh quux", "ai \"\"", "ai list files",
     "cd d", "cd nope", "cd f", "rmdir ../d", "rm -r /r/d", "mv /r/d /r/e",
     "alias cat=pwd", "cat f", "echo 'x", "alias e=", "e", "mkdir d2",
     "exit", "exit 3", "exit abc",
     "alias ll='ls -la' ls='ls -la'", "ll", "ls",
     "echo 'create a new file called demo.txt", "rm -r /r", "echo a b",
     "history", "ll \"my dir\"", "ai create a file called x", "which cat echo",
     "export A=1 B", "unalias ll zz", "alias x=y zz"}

\* what the user types at the prompt "Execute this command? (y/N): "; the
\* record without text is end of input or an interrupt
Answers == {[kind |-> "text", text |-> "y"], [kind |-> "text", text |-> " Yes "],
            [kind |-> "text", text |-> "n"], [kind |-> "eof", text |-> ""]}

\* what the host does to the file-system calls of cd
Faults == {"none", "perm", "other"}

\* what subprocess.run does with an external command
Launches == {"not_found", "error", "exit0", "exit1"}

(***************************************************************************)
(* The interpreter, the classifier and the tokenizer are pure functions of *)
(* the line; their values for the lines a run meets are tabulated once.    *)
(***************************************************************************)

\* the submitted lines, their translations, the queries of "ai" and the
\* lines alias expansion produces
CachedLines ==
    Lines \cup {"ls -la", "ls -la ", "ls -la -la", "touch demo.txt", "list files", "pwd f",
                " ", "ls -la my dir", "touch x"}

interpret_table == [l \in CachedLines |-> interpret(l)]
is_natural_language_table == [l \in CachedLines |-> is_natural_language(l)]
parse_table == [l \in CachedLines |-> parse_command_line(l)]
strip_table == [l \in CachedLines |-> Strip(l)]

\* command_line.strip() as the engine calls it
Stripped(command_line) ==
    IF command_line \in CachedLines THEN strip_table[command_line] ELSE Strip(command_line)

\* self.ai_interpreter.interpret(query) as the engine calls it
Interpret(query) ==
    IF query \in CachedLines THEN interpret_table[query] ELSE interpret(query)

IsNaturalLanguage(command_line) ==
    IF command_line \in CachedLines THEN is_natural_language_table[command_line]
    ELSE is_natural_language(command_line)

\* self.parse_command_line(command_line) as the engine calls it
Parse(command_line) ==
    IF command_line \in CachedLines THEN parse_table[command_line]
    ELSE parse_command_line(command_line)

\* one interpret call and what it returned
InterpRecord(query, i) ==
    [query |-> query, success |-> i.success, command |-> i.command,
     explanation |-> i.explanation, via |-> i.via, rule |-> i.rule]

\* The path execute_command takes for a line, up to the handler it picks:
\*   "blank"      the line is empty after strip(): return 0, "", ""
\*   "translate"  the interpreter translated it: execute_command(ai_command)
\*   "syntax"     parse_command_line raised ValueError
\*   "empty"      no tokens: return 0, "", ""
\*   "index"      args[0] raised IndexError after alias expansion
\*   "builtin"    builtin_commands[command](args[1:])
\*   "external"   execute_external_command(args)
\* noted holds the interpret calls made on the way, aliased whether an alias
\* was expanded.
Path(kind, command, args, aliased, noted, err) ==
    [kind |-> kind, command |-> command, args |-> args, aliased |-> aliased,
     noted |-> noted, err |-> err]

\* lines 134-139: built-in or external
RouteCommand(args, aliased, noted) ==
    IF args[1] \in builtin_commands
    THEN Path("builtin", args[1], Tail(args), aliased, noted, "")
    ELSE Path("external", args[1], args, aliased, noted, "")

\* lines 131-132: the tokens of the expanded line; args[0] of no tokens raises
RouteExpanded(p2, noted) ==
    IF ~p2.ok THEN Path("syntax", "", <<>>, TRUE, noted, p2.err)
    ELSE IF Len(p2.args) = 0 THEN Path("index", "", <<>>, TRUE, noted, "list index out of range")
    ELSE RouteCommand(p2.args, TRUE, noted)

\* the text line 130 builds for the tokens args whose first is an alias
Expansion(args, aliases) ==
    aliases[AliasGet(aliases, args[1])].command \o " " \o Join(" ", Tail(args))

\* a dispatcher that looks the first token of the expansion up in the alias
\* table once more
RouteTokensTwice(p1, aliases, noted) ==
    IF ~p1.ok THEN Path("syntax", "", <<>>, FALSE, noted, p1.err)
    ELSE IF Len(p1.args) = 0 THEN Path("empty", "", <<>>, FALSE, noted, "")
    ELSE IF p1.args[1] \notin AliasNames(aliases) THEN RouteCommand(p1.args, FALSE, noted)
    ELSE LET p2 == Parse(Expansion(p1.args, aliases))
         IN  IF p2.ok /\ Len(p2.args) > 0 /\ p2.args[1] \in AliasNames(aliases)
             THEN RouteExpanded(parse_command_line(Expansion(p2.args, aliases)), noted)
             ELSE RouteExpanded(p2, noted)

\* a dispatcher that looks the first token up in the registry before it
\* looks at the alias table
RouteTokensRegistryFirst(p1, aliases, noted) ==
    IF ~p1.ok THEN Path("syntax", "", <<>>, FALSE, noted, p1.err)
    ELSE IF Len(p1.args) = 0 THEN Path("empty", "", <<>>, FALSE, noted, "")
    ELSE IF p1.args[1] \in AliasNames(aliases) /\ p1.args[1] \notin builtin_commands
    THEN RouteExpanded(Parse(Expansion(p1.args, aliases)), noted)
    ELSE RouteCommand(p1.args, FALSE, noted)

\* lines 120-132: the tokens of the line and the alias expansion
RouteTokens(p1, aliases, noted) ==
    IF ~p1.ok THEN Path("syntax", "", <<>>, FALSE, noted, p1.err)
    ELSE IF Len(p1.args) = 0 THEN Path("empty", "", <<>>, FALSE, noted, "")
    ELSE IF p1.args[1] \in AliasNames(aliases)
    THEN RouteExpanded(Parse(Expansion(p1.args, aliases)), noted)
    ELSE RouteCommand(p1.args, FALSE, noted)

\* a dispatcher that reports a translation that failed
RouteInterpretedOrFail(command_line, aliases, i) ==
    IF i.success
    THEN Path("translate", i.command, <<>>, FALSE, <<InterpRecord(command_line, i)>>, "")
    ELSE Path("syntax", "", <<>>, FALSE, <<InterpRecord(command_line, i)>>, i.explanation)

\* lines 114-117: the outcome i of the interpret call
RouteInterpreted(command_line, aliases, i) ==
    IF i.success
    THEN Path("translate", i.command, <<>>, FALSE, <<InterpRecord(command_line, i)>>, "")
    ELSE RouteTokens(Parse(command_line), aliases, <<InterpRecord(command_line, i)>>)

\* lines 102-117: the classification nl of the line
RouteClassified(command_line, aliases, nl) ==
    IF nl THEN RouteInterpreted(command_line, aliases, Interpret(command_line))
    ELSE RouteTokens(Parse(command_line), aliases, <<>>)

Route(command_line, aliases) ==
    IF Stripped(command_line) = "" THEN Path("blank", "", <<>>, FALSE, <<>>, "")
    ELSE RouteClassified(command_line, aliases, IsNaturalLanguage(command_line))

VARIABLES
    pc,                 \* "idle": between commands; "running": inside execute_command;
                        \* "exited": the process has ended
    stack,              \* the lines of the nested execute_command calls, innermost last
    command_history,    \* TerminalEngine.command_history
    current_directory,  \* TerminalEngine.current_directory
    dirs, files,        \* the file system
    aliases,            \* TerminalEngine.aliases
    environment_vars,   \* TerminalEngine.environment_vars
    result,             \* what the last external call returned
    ncalls,             \* external calls made so far
    pre,                \* the line of the current external call and the session when it began
    handler_calls,      \* handlers invoked by the current external call, with arguments
    external_calls,     \* argument lists given to execute_external_command by it
    launches,           \* what the host did with each of them
    answers,            \* what the user answered to each confirmation prompt of it
    interp_calls,       \* interpret invocations made by it, with their results
    nreturns,           \* results returned to the caller by it
    exit_code,          \* the argument of sys.exit once the process has ended
    probe,              \* an interpret call made on the interpreter alone
    chat_history,       \* AICommandInterpreter.chat_history
    chat_out            \* what the last call of chat returned

vars == <<pc, stack, command_history, current_directory, dirs, files, aliases,
          environment_vars, result, ncalls, pre, handler_calls, external_calls, launches,
          answers, interp_calls, nreturns, exit_code, probe, chat_history, chat_out>>

session == <<command_history, current_directory, dirs, files, aliases, environment_vars>>
observers == <<ncalls, pre, handler_calls, external_calls, launches, answers, interp_calls>>

NoResult == Result(-1, "", "")

\* the process is alive
NoExit == -1

\* no interpret call is being made on the interpreter alone
NoProbe == [query |-> "", gemini |-> [use_gemini |-> FALSE, model |-> FALSE],
            response |-> NoResponse, done |-> TRUE, asked |-> FALSE,
            out |-> [success |-> FALSE]]

\* os.environ when the program starts
os_environ == [name \in {"HOME"} |-> "/h"]

\* TerminalEngine.__init__ in a host whose working directory /r holds a
\* directory d and a file f.  The session begins with an empty history;
\* submitted stands for the lines submitted before the calls that are followed.
\* chats is the chat history _initialize_gemini left; no call of chat has
\* returned (the command None of its result is the empty text).
InitWith(submitted, chats) ==
    /\ pc = "idle"
    /\ stack = <<>>
    /\ command_history = submitted
    /\ current_directory = <<"r">>
    /\ dirs = {<<>>, <<"r">>, <<"h">>, <<"r", "d">>}
    /\ files = {<<"r", "f">>}
    /\ aliases = <<>>
    /\ environment_vars = os_environ
    /\ result = NoResult
    /\ ncalls = 0
    /\ pre = [line |-> "", command_history |-> submitted, current_directory |-> <<"r">>,
              aliases |-> <<>>, environment_vars |-> os_environ,
              dirs |-> {<<>>, <<"r">>, <<"h">>, <<"r", "d">>}, files |-> {<<"r", "f">>}]
    /\ handler_calls = <<>>
    /\ external_calls = <<>>
    /\ launches = <<>>
    /\ answers = <<>>
    /\ interp_calls = <<>>
    /\ nreturns = 0
    /\ exit_code = NoExit
    /\ chat_history = chats
    /\ chat_out = [success |-> FALSE, response |-> "", command |-> ""]

Init == InitWith(<<>>, <<>>) /\ probe = NoProbe

top == stack[Len(stack)]
st == [cwd |-> current_directory, dirs |-> dirs, files |-> files, aliases |-> aliases,
       env |-> environment_vars]

\* the front end calls execute_command(line)
Call(line) ==
    /\ pc = "idle"
    /\ ncalls < MaxCmds
    /\ pc' = "running"
    /\ stack' = <<line>>
    /\ ncalls' = ncalls + 1
    /\ pre' = [line |-> line, command_history |-> command_history,
               current_directory |-> current_directory, aliases |-> aliases,
               environment_vars |-> environment_vars, dirs |-> dirs, files |-> files]
    /\ handler_calls' = <<>>
    /\ external_calls' = <<>>
    /\ launches' = <<>>
    /\ answers' = <<>>
    /\ interp_calls' = <<>>
    /\ nreturns' = 0
    /\ UNCHANGED <<session, result, exit_code, probe, chat_history, chat_out>>

\* every nested call returns what the call it made returned, so the result
\* of the innermost call is the result of the external call
Return(r) ==
    /\ pc' = "idle"
    /\ stack' = <<>>
    /\ result' = r
    /\ nreturns' = nreturns + 1
    /\ UNCHANGED <<exit_code, probe, chat_history, chat_out>>

SetSession(s2) ==
    /\ current_directory' = s2.cwd
    /\ dirs' = s2.dirs
    /\ files' = s2.files
    /\ aliases' = s2.aliases
    /\ environment_vars' = s2.env

\* line 97 and the interpret call of line 114, for a call on path r
Enter(r) ==
    /\ command_history' = Append(command_history, top)
    /\ interp_calls' = interp_calls \o r.noted

\* Every step of the innermost call follows the path r of its line; the
\* operators named ...On(r) are the steps for a call on path r.

\* a dispatcher that appends the line to the history before it looks at it
BlankAppends(r) ==
    /\ r.kind \in {"blank", "empty"}
    /\ command_history' = Append(command_history, top)
    /\ interp_calls' = interp_calls \o r.noted
    /\ Return(Result(0, "", ""))
    /\ UNCHANGED <<current_directory, dirs, files, aliases, environment_vars, ncalls, pre,
                   handler_calls, external_calls, launches, answers>>

\* lines 93-94: a blank line.  (Lines 121-122, no tokens, are the same
\* return after line 97; a line that strip() leaves non-empty has a token.)
BlankOn(r) ==
    /\ r.kind \in {"blank", "empty"}
    /\ command_history' = IF r.kind = "empty" THEN Append(command_history, top)
                          ELSE command_history
    /\ interp_calls' = interp_calls \o r.noted
    /\ Return(Result(0, "", ""))
    /\ UNCHANGED <<current_directory, dirs, files, aliases, environment_vars, ncalls, pre,
                   handler_calls, external_calls, launches, answers>>

\* lines 97-117: the line is translated and execute_command calls itself
TranslateOn(r) ==
    /\ r.kind = "translate"
    /\ Len(stack) < RecursionLimit
    /\ Enter(r)
    /\ stack' = Append(stack, r.command)
    /\ UNCHANGED <<pc, current_directory, dirs, files, aliases, environment_vars, result,
                   ncalls, pre, handler_calls, external_calls, launches, answers, nreturns,
                   exit_code, probe, chat_history, chat_out>>

\* RecursionError as it would be without the handler of lines 141-143: the
\* exception leaves execute_command and the caller gets no result
RecursionErrorUncaught(r) ==
    /\ r.kind = "translate"
    /\ Len(stack) = RecursionLimit
    /\ Enter(r)
    /\ pc' = "idle"
    /\ stack' = <<>>
    /\ UNCHANGED <<current_directory, dirs, files, aliases, environment_vars, result, ncalls,
                   pre, handler_calls, external_calls, launches, answers, nreturns, exit_code,
                   probe, chat_history, chat_out>>

\* lines 97-117 and 141-143: the nested call does not fit on the stack; the
\* RecursionError is caught and becomes the result
RecursionErrorOn(r) ==
    /\ r.kind = "translate"
    /\ Len(stack) = RecursionLimit
    /\ Enter(r)
    /\ Return(Result(1, "", "PyTerminal: maximum recursion depth exceeded"))
    /\ UNCHANGED <<current_directory, dirs, files, aliases, environment_vars, ncalls, pre,
                   handler_calls, external_calls, launches, answers>>

\* lines 120, 131 and 141-143: ValueError of the tokenizer
SyntaxFaultOn(r) ==
    /\ r.kind = "syntax"
    /\ Enter(r)
    /\ Return(Result(1, "", "PyTerminal: " \o r.err))
    /\ UNCHANGED <<current_directory, dirs, files, aliases, environment_vars, ncalls, pre,
                   handler_calls, external_calls, launches, answers>>

\* lines 131-132 and 141-143: the alias expansion has no tokens, args[0]
\* raises IndexError
IndexFaultOn(r) ==
    /\ r.kind = "index"
    /\ Enter(r)
    /\ Return(Result(1, "", "PyTerminal: " \o r.err))
    /\ UNCHANGED <<current_directory, dirs, files, aliases, environment_vars, ncalls, pre,
                   handler_calls, external_calls, launches, answers>>

\* lines 135-136 for a call on path r: the handler, named in names, is
\* called with args[1:]
Builtin(r, names) ==
    /\ r.kind = "builtin"
    /\ r.command \in names
    /\ Enter(r)
    /\ handler_calls' = Append(handler_calls, [name |-> r.command, args |-> r.args])
    /\ UNCHANGED <<ncalls, pre, external_calls, launches, answers>>

\* the handler returned o: its result and the session it left
Finish(o) == SetSession(o.st) /\ Return(o.res)

DispatchCdOn(r) ==
    /\ Builtin(r, {"cd"})
    /\ \E fault \in Faults : \E o \in {cd(r.args, st, fault)} : Finish(o)

\* the built-ins whose handlers work on the session alone
SessionBuiltins ==
    {"pwd", "mkdir", "rmdir", "rm", "mv", "touch", "alias", "unalias", "export", "history",
     "which"}

\* self.builtin_commands[command](args) for them, in a session s whose
\* command_history is log and a host whose PATH holds the programs on_path:
\* what the handler returns and the session it leaves
builtin_handler(command, args, s, log, on_path) ==
    CASE command = "pwd" -> pwd(args, s)
      [] command = "mkdir" -> mkdir(args, s)
      [] command = "rmdir" -> rmdir(args, s)
      [] command = "rm" -> rm(args, s)
      [] command = "mv" -> mv(args, s)
      [] command = "touch" -> touch(args, s)
      [] command = "alias" -> alias(args, s)
      [] command = "unalias" -> unalias(args, s)
      [] command = "export" -> export(args, s)
      [] command = "history" -> [res |-> history(args, log), st |-> s]
      [] command = "which" -> [res |-> which(args, s, on_path), st |-> s]

\* lines 135-136 with one of these handlers, in a host whose PATH holds
\* the program echo or does not
DispatchBuiltinOn(r) ==
    /\ Builtin(r, SessionBuiltins)
    /\ \E on_path \in {{}, {"echo"}} :
          \E o \in {builtin_handler(r.command, r.args, st, Append(command_history, top),
                                    on_path)} : Finish(o)

DigitValue ==
    [c \in {"0", "1", "2", "3", "4", "5", "6", "7", "8", "9"} |->
       CASE c = "0" -> 0 [] c = "1" -> 1 [] c = "2" -> 2 [] c = "3" -> 3 [] c = "4" -> 4
         [] c = "5" -> 5 [] c = "6" -> 6 [] c = "7" -> 7 [] c = "8" -> 8 [] c = "9" -> 9]

\* the number the first i characters of the digits s denote, underscores
\* skipped
RECURSIVE IntValue(_, _)
IntValue(s, i) ==
    IF i = 0 THEN 0
    ELSE IF CharAt(s, i) = "_" THEN IntValue(s, i - 1)
    ELSE IntValue(s, i - 1) * 10 + DigitValue[CharAt(s, i)]

\* int(s) of a string: surrounding whitespace, a sign, then decimal digits
\* with single underscores between them; ok is FALSE where int raises
\* ValueError
int(s) ==
    LET t == Strip(s)
        signed == Len(t) > 0 /\ CharAt(t, 1) \in {"+", "-"}
        body == IF signed THEN SubSeq(t, 2, Len(t)) ELSE t
        literal ==
            /\ Len(body) > 0
            /\ \A i \in 1..Len(body) : CharAt(body, i) \in DOMAIN DigitValue \cup {"_"}
            /\ CharAt(body, 1) # "_" /\ CharAt(body, Len(body)) # "_"
            /\ \A i \in 1..(Len(body) - 1) :
                  ~(CharAt(body, i) = "_" /\ CharAt(body, i + 1) = "_")
    IN  IF ~literal THEN [ok |-> FALSE, n |-> 0]
        ELSE [ok |-> TRUE,
              n |-> IF signed /\ CharAt(t, 1) = "-" THEN 0 - IntValue(body, Len(body))
                    ELSE IntValue(body, Len(body))]

\* an exit handler that ends the process whatever its argument is
exitIgnoresArgument(args) == [ends |-> TRUE, code |-> 0, res |-> NoResult]

\* TerminalEngine.exit: ends tells whether sys.exit(code) is reached; res is
\* what the handler returns when it is not
exit(args) ==
    IF Len(args) > 0 /\ ~int(args[1]).ok
    THEN [ends |-> FALSE, code |-> NoExit, res |-> Result(1, "", "exit: invalid exit code")]
    ELSE [ends |-> TRUE, code |-> IF Len(args) > 0 THEN int(args[1]).n ELSE 0,
          res |-> NoResult]

\* lines 135-136 with the handler exit: SystemExit is no Exception, the
\* handler of lines 141-143 lets it pass and the process ends
DispatchExitOn(r) ==
    /\ Builtin(r, {"exit"})
    /\ \E o \in {exit(r.args)} :
          IF o.ends
          THEN /\ pc' = "exited"
               /\ stack' = <<>>
               /\ exit_code' = o.code
               /\ UNCHANGED <<result, nreturns, probe, chat_history, chat_out>>
          ELSE Return(o.res)
    /\ UNCHANGED <<current_directory, dirs, files, aliases, environment_vars>>

\* a reporting built-in: it returns a result of its own and leaves the session
DispatchReportingOn(r) ==
    /\ Builtin(r, ReportingBuiltins)
    /\ \E ok \in BOOLEAN :
          Return(IF ok THEN Result(0, r.command \o ": output", "")
                 ELSE Result(1, "", r.command \o ": error"))
    /\ UNCHANGED <<current_directory, dirs, files, aliases, environment_vars>>

\* AICommandInterpreter.explain_capabilities
explain_capabilities == "AI Command Interpreter Capabilities: ..."

\* TerminalEngine.ai_command for the query and the outcome i of its
\* interpret call
ai_command(args, query, i) ==
    IF Len(args) = 0 \/ Lower(query) \in {"help", "--help", "-h"}
    THEN /\ interp_calls' = interp_calls
         /\ answers' = answers
         /\ Return(Result(0, explain_capabilities, ""))
    ELSE /\ interp_calls' = Append(interp_calls, InterpRecord(query, i))
         /\ IF ~i.success
            THEN /\ answers' = answers
                 /\ Return(Result(1, "", "Could not interpret: '" \o query \o "'"))
            ELSE \E answer \in Answers :
                   /\ answers' = Append(answers, answer)
                   /\ IF answer.kind = "text" /\ Lower(Strip(answer.text)) \in {"y", "yes"}
                      THEN IF Len(stack) < RecursionLimit
                           THEN /\ stack' = Append(stack, i.command)
                                /\ UNCHANGED <<pc, result, nreturns, exit_code, probe,
                                               chat_history, chat_out>>
                           ELSE Return(Result(1, "", "PyTerminal: maximum recursion depth exceeded"))
                      ELSE Return(Result(0, "Command execution cancelled.", ""))

\* lines 135-136 with the handler ai_command
DispatchAiOn(r) ==
    /\ r.kind = "builtin"
    /\ r.command = "ai"
    /\ command_history' = Append(command_history, top)
    /\ handler_calls' = Append(handler_calls, [name |-> "ai", args |-> r.args])
    /\ \E query \in {Join(" ", r.args)} : ai_command(r.args, query, Interpret(query))
    /\ UNCHANGED <<current_directory, dirs, files, aliases, environment_vars, ncalls, pre,
                   external_calls, launches>>

\* TerminalEngine.execute_external_command: a launch in a working directory
\* that does not exist raises FileNotFoundError as a missing executable does
execute_external_command(args, cwd, dirset, launch) ==
    IF launch = "not_found" \/ cwd \notin dirset
    THEN Result(127, "", "PyTerminal: command not found: " \o args[1])
    ELSE IF launch = "error"
    THEN Result(1, "", "PyTerminal: error executing command: [Errno 13] Permission denied: '"
                       \o args[1] \o "'")
    ELSE Result(IF launch = "exit0" THEN 0 ELSE 1, args[1] \o ": output", "")

\* line 139
DispatchExternalOn(r) ==
    /\ r.kind = "external"
    /\ Enter(r)
    /\ external_calls' = Append(external_calls, r.args)
    /\ \E launch \in Launches :
          /\ launches' = Append(launches, launch)
          /\ Return(execute_external_command(r.args, current_directory, dirs, launch))
    /\ UNCHANGED <<current_directory, dirs, files, aliases, environment_vars, ncalls, pre,
                   handler_calls, answers>>

Blank == pc = "running" /\ \E r \in {Route(top, aliases)} : BlankOn(r)
Translate == pc = "running" /\ \E r \in {Route(top, aliases)} : TranslateOn(r)
RecursionError == pc = "running" /\ \E r \in {Route(top, aliases)} : RecursionErrorOn(r)
SyntaxFault == pc = "running" /\ \E r \in {Route(top, aliases)} : SyntaxFaultOn(r)
IndexFault == pc = "running" /\ \E r \in {Route(top, aliases)} : IndexFaultOn(r)
DispatchCd == pc = "running" /\ \E r \in {Route(top, aliases)} : DispatchCdOn(r)
DispatchBuiltin == pc = "running" /\ \E r \in {Route(top, aliases)} : DispatchBuiltinOn(r)
DispatchReporting == pc = "running" /\ \E r \in {Route(top, aliases)} : DispatchReportingOn(r)
DispatchAi == pc = "running" /\ \E r \in {Route(top, aliases)} : DispatchAiOn(r)
DispatchExternal == pc = "running" /\ \E r \in {Route(top, aliases)} : DispatchExternalOn(r)
DispatchExit == pc = "running" /\ \E r \in {Route(top, aliases)} : DispatchExitOn(r)

Next ==
    \/ \E line \in Lines : Call(line)
    \/ Blank
    \/ Translate
    \/ RecursionError
    \/ SyntaxFault
    \/ IndexFault
    \/ DispatchCd
    \/ DispatchBuiltin
    \/ DispatchReporting
    \/ DispatchAi
    \/ DispatchExternal
    \/ DispatchExit

Spec == Init /\ [][Next]_vars

\* execute_command is synchronous code: once called it runs to its return,
\* and the prompt of ai_command is answered or closed.  The front end is
\* free to stop submitting lines.
Run ==
    /\ pc = "running"
    /\ \E r \in {Route(top, aliases)} :
          \/ BlankOn(r) \/ TranslateOn(r) \/ RecursionErrorOn(r) \/ SyntaxFaultOn(r)
          \/ IndexFaultOn(r) \/ DispatchCdOn(r) \/ DispatchBuiltinOn(r)
          \/ DispatchReportingOn(r) \/ DispatchAiOn(r) \/ DispatchExternalOn(r)
          \/ DispatchExitOn(r)

\* Whether a call returns depends on its line and on the alias table it
\* meets.  The sessions checked for it open with a command that leaves the
\* alias table empty or sets it up, and go on with any lines.
Openers == {"pwd", "alias cat=pwd", "alias e=", "alias ll='ls -la' ls='ls -la'"}

FairNext ==
    \/ \E line \in (IF ncalls = 0 THEN Openers ELSE Lines) : Call(line)
    \/ Blank
    \/ Translate
    \/ RecursionError
    \/ SyntaxFault
    \/ IndexFault
    \/ DispatchCd
    \/ DispatchBuiltin
    \/ DispatchReporting
    \/ DispatchAi
    \/ DispatchExternal
    \/ DispatchExit

FairSpec == Init /\ [][FairNext]_vars /\ WF_vars(Run)

\* Sessions in which lines were submitted before the calls that are
\* followed: none, or so many that the history handler is at its limit of
\* 50 entries.
HistorySpec ==
    /\ \E n \in {0, 48, 49, 50} :
          InitWith([i \in 1..n |-> IF i % 2 = 1 THEN "pwd" ELSE "ls"], <<>>)
    /\ probe = NoProbe
    /\ [][FairNext]_vars

\* self.interpret(command) for the command requests chat is called with,
\* for each way the interpreter can be left and each answer of the command
\* model, tabulated once
command_requests ==
    [u \in {"!list files", "!xyzzy plugh quux"}, g \in Geminis, r \in Responses \cup {NoResponse}
       |-> interpret_gemini(Strip(SubSeq(u, 2, Len(u))), g, r).res]

\* The chat on its own: chat is called again and again, with a message or
\* a '!' command request, and the remote chat answers or fails.  Calls stop
\* when the chat history has MaxChat entries.
ChatCall ==
    /\ Len(chat_history) < MaxChat
    /\ \E user_input \in {"hello", "!list files", "!xyzzy plugh quux"},
          sent \in {[kind |-> "raise", text |-> "503 service unavailable"],
                    [kind |-> "text", text |-> "Hello, how can I help?"]},
          response \in (IF probe.gemini.use_gemini THEN Responses ELSE {NoResponse}) :
          \E o \in {chat(user_input, probe.gemini, chat_history, sent,
                         IF StartsWith(user_input, "!")
                         THEN command_requests[user_input, probe.gemini, response]
                         ELSE [success |-> FALSE])} :
             /\ chat_history' = o.chat_history
             /\ chat_out' = o.out
    /\ UNCHANGED <<pc, stack, session, result, observers, nreturns, exit_code, probe>>

ChatSpec ==
    /\ \E gemini \in Geminis :
          /\ InitWith(<<>>, IF gemini.use_gemini THEN <<system_context>> ELSE <<>>)
          /\ probe = [NoProbe EXCEPT !.gemini = gemini]
    /\ [][ChatCall]_vars

\* The interpreter on its own: interpret is called once with a query, for
\* each way _initialize_gemini can have left the interpreter and each answer
\* of the remote model when it is configured.
InterpretCall ==
    /\ ~probe.done
    /\ \E o \in {interpret_gemini(probe.query, probe.gemini, probe.response)} :
          probe' = [probe EXCEPT !.done = TRUE, !.asked = o.asked, !.out = o.res]
    /\ UNCHANGED <<pc, stack, session, result, observers, nreturns, exit_code, chat_history,
                   chat_out>>

InterpSpec ==
    /\ InitWith(<<>>, <<>>)
    /\ \E query \in Queries, gemini \in Geminis :
          \E response \in (IF gemini.use_gemini THEN Responses ELSE {NoResponse}) :
             probe = [query |-> query, gemini |-> gemini, response |-> response,
                      done |-> FALSE, asked |-> FALSE, out |-> [success |-> FALSE]]
    /\ [][InterpretCall]_vars

\* an external call has returned and the next has not begun
Returned == pc = "idle" /\ ncalls > 0

(***************************************************************************)
(* Properties of execute_command                                           *)
(***************************************************************************)

\* the entries the external call has appended to command_history
Appended == SubSeq(command_history, Len(pre.command_history) + 1, Len(command_history))

\* C1: an external call with a non-blank line L appends exactly one entry to
\* command_history, L itself; re-submissions of translated text add none.
C1_HistoryGrowsByTheLine ==
    (Returned /\ Stripped(pre.line) # "") => command_history = Append(pre.command_history, pre.line)

C3_AtMostTwoResubmissions == pc = "running" => Len(stack) - 1 <= 2

\* the handler calls of the external call that went to the handler of name
CallsOf(name) == {k \in 1..Len(handler_calls) : handler_calls[k].name = name}

\* the submitted line is a literal command: its first token is a built-in
\* name that is not an alias
LiteralBuiltin(p) ==
    /\ p.ok
    /\ Len(p.args) > 0
    /\ p.args[1] \in builtin_commands
    /\ p.args[1] \notin AliasNames(pre.aliases)

ReachedOnce(p) ==
    /\ Cardinality(CallsOf(p.args[1])) = 1
    /\ \A k \in CallsOf(p.args[1]) : handler_calls[k].args = Tail(p.args)

\* C4: a literal line whose first token is a built-in name and no alias
\* reaches that built-in's handler exactly once, with the remaining tokens.
C4_LiteralBuiltinReachesHandler ==
    (Returned /\ LiteralBuiltin(Parse(pre.line))) => ReachedOnce(Parse(pre.line))

\* C5: 'create a new file called demo.txt' is classified as natural
\* language, translated by the file-creation rule to 'touch demo.txt',
\* re-submitted once, and reaches the touch handler once with ['demo.txt'];
\* nothing else is interpreted, handled or launched, and the result is the
\* handler's: (0, '', '') when touch succeeds.
C5_CreateFileScenario ==
    (Returned /\ pre.line = "create a new file called demo.txt"
              /\ "touch" \notin AliasNames(pre.aliases))
    => /\ Len(interp_calls) = 1
       /\ interp_calls[1].query = pre.line
       /\ interp_calls[1].success
       /\ interp_calls[1].via = "pattern"
       /\ interp_calls[1].rule = 1
       /\ interp_calls[1].command = "touch demo.txt"
       /\ Appended = <<pre.line, "touch demo.txt">>
       /\ handler_calls = <<[name |-> "touch", args |-> <<"demo.txt">>]>>
       /\ external_calls = <<>>
       /\ nreturns = 1
       /\ result = touch(<<"demo.txt">>, [cwd |-> pre.current_directory, dirs |-> pre.dirs,
                                          files |-> pre.files, aliases |-> pre.aliases]).res
       /\ (result.code = 0 => result = Result(0, "", ""))
       /\ (pre.current_directory \in pre.dirs => result.code = 0)

\* the scenario ended with the file created
C5_Witness ==
    /\ Returned
    /\ pre.line = "create a new file called demo.txt"
    /\ handler_calls = <<[name |-> "touch", args |-> <<"demo.txt">>]>>
    /\ result = Result(0, "", "")
    /\ Append(pre.current_directory, "demo.txt") \in files

\* the interpret calls of the external call made with the query
InterpretsOf(query) == {k \in 1..Len(interp_calls) : interp_calls[k].query = query}

\* C6: interpret('show me all files') is matched by a pattern of the
\* file-listing rule, not by the keyword fallback, and gives 'ls -la'.
C6_ShowMeAllFilesIsListingRule ==
    \A k \in InterpretsOf("show me all files") :
        /\ interp_calls[k].success
        /\ interp_calls[k].via = "pattern"
        /\ interp_calls[k].rule = 3
        /\ interp_calls[k].command = "ls -la"

\* C7: interpret returns for a query nothing matches: the gibberish query
\* and the empty query are not matched, and every call that nothing matched
\* gave matched = false, an empty command and a non-empty explanation.
C7_NoMatchIsReported ==
    \A k \in 1..Len(interp_calls) :
        /\ interp_calls[k].query = "xyzzy plugh quux" => interp_calls[k].via = "none"
        /\ interp_calls[k].query = "" => interp_calls[k].via = "empty"
        /\ interp_calls[k].via \in {"none", "empty"}
           => /\ ~interp_calls[k].success
              /\ interp_calls[k].command = ""
              /\ interp_calls[k].explanation # ""
        /\ interp_calls[k].via \in {"pattern", "fallback"} => interp_calls[k].success

\* interpret was called with the gibberish query and reported no match
C7_Witness ==
    \E k \in InterpretsOf("xyzzy plugh quux") :
        /\ ~interp_calls[k].success
        /\ interp_calls[k].explanation = "Could not interpret: 'xyzzy plugh quux'"

\* C8: an empty or whitespace-only line returns (0, '', '') and leaves the
\* session as it was: no history entry, no interpret call, no handler and no
\* external command.
C8_BlankLineIsInert ==
    (Returned /\ Stripped(pre.line) = "")
    => /\ result = Result(0, "", "")
       /\ nreturns = 1
       /\ command_history = pre.command_history
       /\ current_directory = pre.current_directory
       /\ aliases = pre.aliases
       /\ dirs = pre.dirs
       /\ files = pre.files
       /\ interp_calls = <<>>
       /\ handler_calls = <<>>
       /\ external_calls = <<>>

\* a whitespace-only line was submitted to a session with a history
C8_Witness ==
    /\ Returned
    /\ pre.line = "   "
    /\ Len(pre.command_history) > 0
    /\ command_history = pre.command_history
    /\ result = Result(0, "", "")

\* the external call ended in the cd handler
LastHandlerIsCd ==
    /\ Returned
    /\ Len(handler_calls) > 0
    /\ handler_calls[Len(handler_calls)].name = "cd"

\* C9: when cd returns a non-zero exit code the code is 1 and
\* current_directory is what it was before the call; when cd assigned
\* current_directory the target had been found to be an existing directory.
C9_CdFailureLeavesDirectory ==
    LastHandlerIsCd
    => /\ result.code # 0 => (result.code = 1 /\ current_directory = pre.current_directory)
       /\ current_directory # pre.current_directory
          => (result.code = 0 /\ current_directory \in pre.dirs)

\* cd failed on a target that is no directory
C9_Witness ==
    /\ LastHandlerIsCd
    /\ result.code = 1
    /\ StartsWith(result.err, "cd: not a directory")
    /\ current_directory = pre.current_directory

\* C10: between commands current_directory names a directory that exists.
C10_CurrentDirectoryExists == pc = "idle" => current_directory \in dirs

\* C18: the exit handler called with a first argument that is not an
\* integer returns (1, '', a message naming 'exit') and the process lives
\* on; called with no argument it ends the process with code 0, and with
\* the integer argument 3 with code 3.
C18_ExitHandler ==
    (pc \in {"idle", "exited"} /\ handler_calls # <<>>
       /\ handler_calls[Len(handler_calls)].name = "exit")
    => LET args == handler_calls[Len(handler_calls)].args
       IN  /\ args = <<>> => pc = "exited" /\ exit_code = 0
           /\ args = <<"3">> => pc = "exited" /\ exit_code = 3
           /\ args = <<"abc">> =>
                 /\ pc = "idle" /\ exit_code = NoExit /\ nreturns = 1
                 /\ result.code = 1 /\ result.out = "" /\ Contains(result.err, "exit")

\* 'exit abc' was refused and the session went on to 'exit 3'
C18_Witness ==
    /\ pc = "exited"
    /\ exit_code = 3
    /\ command_history = <<"exit abc", "exit 3">>
    /\ result = Result(1, "", "exit: invalid exit code")

\* the alias table an 'alias ll=... ls=...' command left: ll and ls both
\* stand for 'ls -la'
LlAndLsDefined(a) ==
    /\ {"ll", "ls"} \subseteq AliasNames(a)
    /\ a[AliasGet(a, "ll")].command = "ls -la"
    /\ a[AliasGet(a, "ls")].command = "ls -la"

\* C11: alias expansion is applied once per submitted line: with ll and ls
\* both defined as 'ls -la', the line 'll' (or 'ls') is expanded to
\* 'ls -la' and goes to the ls built-in with the one argument '-la'; the
\* first token of the expansion is not expanded again, and the call
\* returns.
C11_AliasExpandedOnce ==
    (pc = "idle" /\ pre.line \in {"ll", "ls"} /\ LlAndLsDefined(pre.aliases))
    => /\ handler_calls = <<[name |-> "ls", args |-> <<"-la">>]>>
       /\ external_calls = <<>>
       /\ nreturns = 1
       /\ Appended = <<pre.line>>
       /\ aliases = pre.aliases

\* 'ls' was submitted with the self-referential alias in place
C11_Witness ==
    /\ pc = "idle"
    /\ pre.line = "ls"
    /\ LlAndLsDefined(pre.aliases)
    /\ handler_calls = <<[name |-> "ls", args |-> <<"-la">>]>>

\* C12: the alias table is consulted before the registry: when the first
\* token of a line that took the literal path is an alias key and a
\* built-in name, the command that runs is the one the first token of the
\* expansion names, with the other tokens of the expansion as arguments;
\* with cat aliased to pwd, 'cat f' runs pwd.
C12_AliasBeforeRegistry ==
    LET p1 == Parse(pre.line)
    IN  (/\ pc = "idle" /\ interp_calls = <<>>
         /\ p1.ok /\ Len(p1.args) > 0
         /\ p1.args[1] \in AliasNames(pre.aliases) \cap builtin_commands)
        => LET p2 == Parse(Expansion(p1.args, pre.aliases))
           IN  /\ (p2.ok /\ Len(p2.args) > 0) =>
                     IF p2.args[1] \in builtin_commands
                     THEN /\ handler_calls # <<>>
                          /\ handler_calls[1] = [name |-> p2.args[1], args |-> Tail(p2.args)]
                          /\ external_calls = <<>>
                     ELSE /\ handler_calls = <<>>
                          /\ external_calls = <<p2.args>>
               /\ (pre.line = "cat f"
                     /\ pre.aliases[AliasGet(pre.aliases, "cat")].command = "pwd")
                   => handler_calls = <<[name |-> "pwd", args |-> <<"f">>]>>

\* 'cat f' was submitted with cat aliased to pwd, and pwd ran
C12_Witness ==
    /\ pc = "idle"
    /\ pre.line = "cat f"
    /\ "cat" \in AliasNames(pre.aliases)
    /\ handler_calls = <<[name |-> "pwd", args |-> <<"f">>]>>
    /\ result.code = 0

\* C13: a submitted line with an unterminated quote returns exit code 1
\* with a message on stderr and nothing else happens for it: no translation
\* is re-submitted, no handler and no external command is called, and the
\* session is as it was but for the history entry.
C13_UnbalancedQuoteIsInert ==
    (pc = "idle" /\ ~Parse(pre.line).ok
       /\ Parse(pre.line).err = "Invalid command syntax: No closing quotation")
    => /\ result.code = 1
       /\ result.err # ""
       /\ Appended = <<pre.line>>
       /\ handler_calls = <<>>
       /\ external_calls = <<>>
       /\ <<current_directory, dirs, files, aliases>>
            = <<pre.current_directory, pre.dirs, pre.files, pre.aliases>>

\* C14: an external command returns 127 with 'command not found: <name>'
\* exactly when the executable is not found, and every other launch
\* failure (permission denied, a working directory that is gone) returns 1
\* with a message on stderr.
C14_NotFoundIs127OthersAre1 ==
    (pc = "idle" /\ Len(external_calls) = 1)
    => LET name == external_calls[1][1]
           not_found == launches[1] = "not_found"
           failed == launches[1] = "error" \/ pre.current_directory \notin pre.dirs
       IN  /\ not_found <=> /\ result.code = 127
                            /\ Contains(result.err, "command not found: " \o name)
           /\ (failed /\ ~not_found) => result.code = 1 /\ result.err # ""

\* C15: an unexpected fault raised while a line is dispatched comes back
\* as exit code 1 with a message of the form 'internal error: ...' (here
\* the IndexError of args[0] after an alias expanded to no tokens), and the
\* session is as it was but for the history entry.
C15_FaultIsInternalError ==
    LET p1 == Parse(pre.line)
    IN  (/\ pc = "idle" /\ interp_calls = <<>>
         /\ p1.ok /\ Len(p1.args) > 0
         /\ p1.args[1] \in AliasNames(pre.aliases)
         /\ Parse(Expansion(p1.args, pre.aliases)) = [ok |-> TRUE, args |-> <<>>, err |-> ""])
        => /\ result.code = 1
           /\ StartsWith(result.err, "internal error: ")
           /\ nreturns = 1
           /\ <<current_directory, dirs, files, aliases>>
                = <<pre.current_directory, pre.dirs, pre.files, pre.aliases>>

\* C17: when the classifier takes the submitted line for natural language
\* and interpret returns no match, the line itself is executed literally:
\* it is tokenized, its first token looked up in the alias table and the
\* registry, and the handler or the external command it names is run and
\* gives the result; the failed translation is not reported as an error.
\* 'echo a b' is run as the external command echo with the arguments a, b.
C17_FailedTranslationRunsLiterally ==
    (/\ pc = "idle" /\ interp_calls # <<>>
     /\ interp_calls[1].query = pre.line /\ ~interp_calls[1].success)
    => LET p == RouteTokens(Parse(pre.line), pre.aliases, <<>>)
       IN  /\ Appended = <<pre.line>>
           /\ Len(interp_calls) = 1
           /\ p.kind = "external" =>
                 /\ external_calls = <<p.args>> /\ handler_calls = <<>>
                 /\ result = execute_external_command(p.args, pre.current_directory,
                                                       pre.dirs, launches[1])
           /\ p.kind = "builtin" =>
                 /\ handler_calls # <<>>
                 /\ handler_calls[1] = [name |-> p.command, args |-> p.args]
           /\ p.kind = "syntax" => result = Result(1, "", "PyTerminal: " \o p.err)
           /\ pre.line = "echo a b" =>
                 /\ external_calls = <<<<"echo", "a", "b">>>>
                 /\ launches = <<"exit0">> /\ current_directory \in dirs
                    => result = Result(0, "echo: output", "")

\* 'echo a b' went to the interpreter, which had no match, and echo ran
C17_Witness ==
    /\ pc = "idle"
    /\ pre.line = "echo a b"
    /\ Len(interp_calls) = 1 /\ ~interp_calls[1].success
    /\ external_calls = <<<<"echo", "a", "b">>>>
    /\ result = Result(0, "echo: output", "")

\* C16: a configured remote model is asked before the rule table is
\* looked at, and its command is the result; when its call raises or its
\* answer is empty or the CANNOT_INTERPRET sentinel, the result of interpret
\* is what the rule table (patterns, then keyword fallback) gives for the
\* trimmed query; an interpreter without a configured remote model never
\* calls it and gives the rule table's result.
C16_RemoteFallsThrough ==
    probe.done =>
      LET query == Strip(probe.query)
          configured == probe.gemini.use_gemini
          failed == \/ probe.response.kind = "raise"
                    \/ Strip(probe.response.text) \in {"", "CANNOT_INTERPRET"}
      IN  /\ (configured /\ query # "") =>
                /\ probe.asked
                /\ failed => probe.out = _pattern_match_interpret(query)
                /\ ~failed => /\ probe.out.success /\ probe.out.via = "gemini"
                              /\ probe.out.command = Strip(probe.response.text)
          /\ ~configured =>
                /\ ~probe.asked
                /\ query # "" => probe.out = _pattern_match_interpret(query)

\* the remote model answered a query the rule table knows with the
\* sentinel, and the rule table's command came back
C16_Witness ==
    /\ probe.done /\ probe.asked
    /\ probe.query = "  LIST ALL FILES "
    /\ probe.response.text = " CANNOT_INTERPRET\n"
    /\ probe.out.success /\ probe.out.command = "ls -la" /\ probe.out.via = "pattern"

\* the command word for the action each suggestion names, in the order of
\* the list
SuggestedWord ==
    <<"touch", "mkdir", "ls", "ls", "cp", "mv", "rm", "cat", "find", "grep", "free", "df",
      "ps", "pwd", "mkdir">>

\* C19: every query of the suggestions list is interpreted by the rule
\* table (no remote model) with success, to a command whose first word is
\* the command for the action the query names.
C19_SuggestionsAreInterpreted ==
    \A k \in 1..Len(suggestions) :
       (probe.done /\ ~probe.gemini.use_gemini /\ probe.query = suggestions[k])
       => /\ probe.out.success
          /\ StartsWith(probe.out.command \o " ", SuggestedWord[k] \o " ")

\* the patterns of the rule table whose regular expression is found in the
\* query, as pairs <<rule, pattern>>
PatternsMatching(query, rules) ==
    {rj \in {<<r, j>> : r \in 1..Len(rules), j \in 1..4} :
        /\ rj[2] <= Len(rules[rj[1]].patterns)
        /\ re_search(rules[rj[1]].patterns[rj[2]], query).ok}

\* pattern a is declared no later than pattern b
DeclaredBefore(a, b) == a[1] < b[1] \/ (a[1] = b[1] /\ a[2] <= b[2])

\* out is the result for the query built from pattern rj: its rule's
\* template filled with the groups the pattern captured
BuiltFrom(out, query, rules, rj) ==
    \E f \in {format(rules[rj[1]].command_template,
                      re_search(rules[rj[1]].patterns[rj[2]], query).caps)} :
       /\ f.ok
       /\ out.success /\ out.via = "pattern"
       /\ out.rule = rj[1] /\ out.pat = rj[2]
       /\ out.command = f.s

ResultIsFirstMatch(out, query, rules) ==
    \E hits \in {PatternsMatching(query, rules)} :
       IF hits = {} THEN out.via # "pattern"
       ELSE \E rj \in hits : /\ \A o \in hits : DeclaredBefore(rj, o)
                              /\ BuiltFrom(out, query, rules, rj)

\* C20: the result of interpret (no remote model) comes from the first
\* pattern, in declaration order of rules and of patterns within a rule,
\* that is found in the trimmed query without regard to case: when patterns
\* of two rules match, the rule declared earlier gives the command.  No
\* template substitution fails for a pattern that matched.
C20_FirstPatternInDeclarationOrder ==
    (probe.done /\ ~probe.gemini.use_gemini /\ Strip(probe.query) # "")
    => ResultIsFirstMatch(probe.out, Strip(probe.query), patterns)

\* the find rule (15) and the grep rule (16) both match; find, declared
\* earlier, gave the command
C20_Witness ==
    /\ probe.done /\ ~probe.gemini.use_gemini
    /\ probe.query = "search for 'hello' in file.txt"
    /\ probe.out.rule = 15 /\ probe.out.pat = 2
    /\ probe.out.command = "find . -name \"*hello*\""

\* C21: with no remote model, the query "search for 'hello' in file.txt" is
\* translated by the text-search rule (16) to grep "hello" file.txt, and the
\* query "create a folder called projects and move main.py there" by the
\* create-directory-and-move rule (14) to mkdir projects && mv main.py
\* projects/: the find-by-name rule and the create-directory rule, declared
\* earlier, do not take these queries.
C21_LaterRulesWinTheirQueries ==
    (probe.done /\ ~probe.gemini.use_gemini)
    => /\ probe.query = "search for 'hello' in file.txt"
             => /\ probe.out.success /\ probe.out.rule = 16
                /\ probe.out.command = "grep \"hello\" file.txt"
       /\ probe.query = "create a folder called projects and move main.py there"
             => /\ probe.out.success /\ probe.out.rule = 14
                /\ probe.out.command = "mkdir projects && mv main.py projects/"

\* the keyword sets of the fallback with a keyword that occurs in the query
KeywordSetsIn(query) ==
    {i \in 1..Len(keywords_commands) :
        \E j \in 1..Len(keywords_commands[i].keywords) :
           Contains(query, keywords_commands[i].keywords[j])}

\* out is what the keyword fallback gives for the sets found in the query
ResultIsFirstKeywordSet(out, found) ==
    IF found = {} THEN ~out.success /\ out.via = "none"
    ELSE /\ out.success /\ out.via = "fallback"
         /\ out.command = keywords_commands[SetMin(found)].command

\* C22: with no remote model, the keyword fallback gives the result of
\* interpret exactly when no rule pattern is found in the trimmed query, and
\* then the command is that of the first keyword set, in the fixed order of
\* the sets, with a keyword that is a substring of the lowercased query; with
\* no such set the query is not interpreted.
C22_KeywordFallbackInOrder ==
    (probe.done /\ ~probe.gemini.use_gemini /\ Strip(probe.query) # "")
    => IF PatternsMatching(Strip(probe.query), patterns) # {}
       THEN probe.out.via = "pattern"
       ELSE ResultIsFirstKeywordSet(probe.out, KeywordSetsIn(Lower(Strip(probe.query))))

\* no pattern is found in a query with the keywords "running" (third set),
\* "ram" (fourth, in capitals in the query) and "disk" (fifth); ps is the
\* result
C22_Witness ==
    /\ probe.done /\ ~probe.gemini.use_gemini
    /\ probe.query = "running low on RAM and disk"
    /\ probe.out.success /\ probe.out.via = "fallback" /\ probe.out.command = "ps"

\* C23: a step changes current_directory only when it is the cd handler
\* returning exit code 0: the other built-in handlers, alias expansion,
\* translation, the faults and external execution leave it as it is.
C23_OnlyCdChangesDirectory ==
    [][current_directory' # current_directory
       => /\ Len(handler_calls') = Len(handler_calls) + 1
          /\ handler_calls'[Len(handler_calls')].name = "cd"
          /\ pc' = "idle" /\ result'.code = 0]_vars

\* rm removed the current directory itself, and current_directory still
\* names it
C23_Witness ==
    /\ Returned
    /\ handler_calls = <<[name |-> "rm", args |-> <<"-r", "/r">>]>>
    /\ result.code = 0
    /\ pre.current_directory \in pre.dirs
    /\ current_directory = pre.current_directory
    /\ current_directory \notin dirs

\* line k of the history handler's output for the entry cmd: the number in
\* a field of four, two blanks, the entry
HistoryLine(k, cmd) ==
    (IF k < 10 THEN "   " ELSE "  ") \o ToString(k) \o "  " \o cmd

\* the external call ended in the history handler
LastHandlerIsHistory ==
    /\ Returned
    /\ Len(handler_calls) > 0
    /\ handler_calls[Len(handler_calls)].name = "history"

\* C24: no step removes, reorders or rewrites an entry of command_history
\* (each step leaves it as it is or appends to it), and the history handler
\* returns (0, lines, '') where the lines are the last 50 entries, or all of
\* them when there are fewer, in submission order and numbered from 1.
C24_HistoryAppendOnlyLast50 ==
    /\ [][/\ Len(command_history') >= Len(command_history)
          /\ SubSeq(command_history', 1, Len(command_history)) = command_history]_vars
    /\ [](LastHandlerIsHistory
          => \E n \in {Len(command_history)} : \E m \in {IF n > 50 THEN 50 ELSE n} :
                result = Result(0, Join("\n", [k \in 1..m |->
                                    HistoryLine(k, command_history[n - m + k])]), ""))

\* the history handler ran on a history of 52 entries
C24_Witness ==
    /\ LastHandlerIsHistory
    /\ Len(command_history) = 52
    /\ result.code = 0
    /\ StartsWith(result.out, "   1  pwd\n   2  ls\n")

\* the tokens the external call handed to its first handler or program: the
\* command name and the arguments
DispatchedTokens ==
    IF handler_calls # <<>> THEN <<handler_calls[1].name>> \o handler_calls[1].args
    ELSE external_calls[1]

\* C25: when the first token of a line is an alias (and the line is not
\* translated), the tokens dispatched are the tokens of the alias text
\* followed by the original tokens 2..n, each unchanged, also when an
\* argument holds a blank or a quote.
C25_AliasKeepsArguments ==
    \A p1 \in {Parse(pre.line)} :
       (/\ Returned
        /\ Len(command_history) = Len(pre.command_history) + 1
        /\ handler_calls # <<>> \/ external_calls # <<>>
        /\ p1.ok /\ Len(p1.args) > 0
        /\ p1.args[1] \in AliasNames(pre.aliases))
       => \A text \in {Parse(pre.aliases[AliasGet(pre.aliases, p1.args[1])].command)} :
             (text.ok /\ Len(text.args) > 0)
             => DispatchedTokens = text.args \o Tail(p1.args)

\* C26: a line whose first token is an alias and whose expansion has no
\* tokens (an alias with an empty or blank text, submitted without
\* arguments) is treated like a line without tokens: the call returns
\* (0, '', '') and no handler or program is called.
C26_EmptyExpansionIsEmptyLine ==
    \A p1 \in {Parse(pre.line)} :
       (/\ Returned
        /\ Len(command_history) = Len(pre.command_history) + 1
        /\ p1.ok /\ Len(p1.args) > 0
        /\ p1.args[1] \in AliasNames(pre.aliases)
        /\ \E p2 \in {Parse(Expansion(p1.args, pre.aliases))} : p2.ok /\ p2.args = <<>>)
       => /\ result = Result(0, "", "")
          /\ handler_calls = <<>> /\ external_calls = <<>>

\* the answer confirms the command: 'y' or 'yes' after strip() and lower()
Confirms(answer) == answer.kind = "text" /\ Lower(Strip(answer.text)) \in {"y", "yes"}

\* C27: in an external call whose line is 'ai <query>' ("ai" is no alias),
\* a handler other than ai_command or a program is called only after the
\* user answered the confirmation prompt with 'y' or 'yes'; after any other
\* answer, end of input or an interrupt nothing but ai_command was called and
\* the result is (0, 'Command execution cancelled.', '').  This holds also
\* for a query with words of the natural-language classifier.
C27_AiRunsOnlyAfterConfirmation ==
    (Returned /\ StartsWith(pre.line, "ai ") /\ "ai" \notin AliasNames(pre.aliases))
    => /\ (external_calls # <<>> \/ \E k \in 1..Len(handler_calls) : handler_calls[k].name # "ai")
          => (answers # <<>> /\ Confirms(answers[1]))
       /\ (answers # <<>> /\ ~Confirms(answers[Len(answers)]))
          => /\ result = Result(0, "Command execution cancelled.", "")
             /\ external_calls = <<>>
             /\ \A k \in 1..Len(handler_calls) : handler_calls[k].name = "ai"

\* what which says of a name the dispatcher resolves in the alias table
\* first, then in the registry, then on the PATH on_path
WhichOfDispatcher(name, table, on_path) ==
    IF name \in AliasNames(table)
    THEN name \o ": aliased to '" \o table[AliasGet(table, name)].command \o "'"
    ELSE IF name \in builtin_commands THEN name \o ": shell builtin"
    ELSE IF name \in on_path THEN "/usr/bin/" \o name
    ELSE name \o ": not found"

\* C28: the which handler reports for each name the resolution the
\* dispatcher uses: the alias when the name is an alias key (also when it
\* is a built-in name as well), 'shell builtin' only for a built-in name
\* that is no alias key, else the program on the PATH or 'not found'.
C28_WhichFollowsDispatcher ==
    (/\ Returned
     /\ Len(handler_calls) > 0
     /\ handler_calls[Len(handler_calls)].name = "which"
     /\ Len(handler_calls[Len(handler_calls)].args) > 0)
    => \E names \in {handler_calls[Len(handler_calls)].args} :
          \E on_path \in SUBSET {names[i] : i \in 1..Len(names)} :
             result = Result(0, Join("\n", [i \in 1..Len(names) |->
                                     WhichOfDispatcher(names[i], pre.aliases, on_path)]), "")

\* C29: when the export, alias or unalias handler returns a non-zero exit
\* code, environment_vars and the alias table are what they were before the
\* call: no argument before the failing one has taken effect.
C29_MappingHandlersAreAtomic ==
    (/\ Returned
     /\ Len(handler_calls) > 0
     /\ handler_calls[Len(handler_calls)].name \in {"export", "alias", "unalias"}
     /\ result.code # 0)
    => /\ environment_vars = pre.environment_vars
       /\ aliases = pre.aliases

\* C30: whenever chat has returned, chat_history holds at most 12 entries,
\* and the chat history of a configured interpreter begins with the
\* system-context entry of its initialization.
C30_ChatHistoryBounded ==
    /\ Len(chat_history) <= 12
    /\ probe.gemini.use_gemini => (chat_history # <<>> /\ chat_history[1] = system_context)

====
